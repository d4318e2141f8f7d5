----------------------------- MODULE OrmSession -----------------------------
(***************************************************************************)
(* What the modules of this project need to know of a SQLAlchemy session   *)
(* (an external library, used through backend/app/db/session.py and        *)
(* through Session(engine) in the workers).  A session keeps the row it    *)
(* loaded.  When it flushes, the UPDATE it emits names only the columns    *)
(* whose assigned value differs from the LOADED value, whatever the        *)
(* database holds by then, and PostgreSQL at READ COMMITTED applies it to  *)
(* the row as it now stands.                                               *)
(***************************************************************************)

(***************************************************************************)
(* The value a column holds after the flush of a session that loaded       *)
(* `loaded' and assigned `assigned', when the database holds `stored'.     *)
(***************************************************************************)
Flush(stored, loaded, assigned) ==
    IF assigned = loaded THEN stored ELSE assigned

=============================================================================

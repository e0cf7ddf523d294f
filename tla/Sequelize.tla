----------------------------- MODULE Sequelize -----------------------------
(***************************************************************************)
(* What the services of petza-backend rely on when they save a row they    *)
(* read earlier.  Sequelize (v6, an npm dependency, not part of the        *)
(* repository) remembers the values an instance was loaded with;           *)
(* `row.update(values)` sends only the columns whose new value differs     *)
(* from the loaded one, in an UPDATE ... WHERE id = <row id>.  A column    *)
(* that is not sent keeps whatever the table holds by then, which need not *)
(* be what the instance holds.                                             *)
(***************************************************************************)

\* The value a column has after such a save: value is what the service asks
\* for, loaded what it read, and stored what the table holds now.
Saved(value, loaded, stored) == IF value # loaded THEN value ELSE stored

============================================================================

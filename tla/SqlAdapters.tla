---------------------------- MODULE SqlAdapters ----------------------------
(***************************************************************************)
(* The SQL adapters over one table: a behaviour is one adapter's.          *)
(***************************************************************************)
EXTENDS MysqlAdapter, PostgresAdapter, SqliteAdapter

Init == CallsInit /\ SqlInit
Next == MysqlNext \/ PostgresNext \/ SqliteNext \/ Tick
Spec == Init /\ [][Next]_vars

---------------------------------------------------------------------------
\* Paging by the last key of a page passes nothing that stays and yields no key twice.
WalksExact == WalksComplete /\ IterationOnce
=============================================================================

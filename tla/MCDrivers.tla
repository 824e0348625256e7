----------------------------- MODULE MCDrivers -----------------------------
(* Instances of the three database sessions, one of them in each behaviour.  *)
EXTENDS MysqlSession, PostgresSession, SqliteSession

CONSTANT Drivers            \* the sessions to be checked

VARIABLE driver
mcVars == <<driver, myVars, pgVars, sqVars>>

MCScripts == {<<"write">>, <<"commit">>, <<"begin", "write">>}

MCInit == driver \in Drivers /\ MyInit /\ PgInit /\ SqInit

\* The second script a caller runs is a single write.
SecondWrites == myWorker'.n = 2 => myWorker'.script = <<"write">>

MCNext ==
    /\ \/ driver = "mysql" /\ MyNext /\ SecondWrites /\ UNCHANGED <<pgVars, sqVars>>
       \/ driver = "postgres" /\ PgNext /\ UNCHANGED <<myVars, sqVars>>
       \/ driver = "sqlite" /\ SqNext /\ UNCHANGED <<myVars, pgVars>>
    /\ UNCHANGED driver

MCSpec == MCInit /\ [][MCNext]_mcVars

\* The states of the three sessions are of their types.
SessionsTypeOK ==
    CASE driver = "mysql" -> MyTypeOK
      [] driver = "postgres" -> PgTypeOK
      [] driver = "sqlite" -> SqTypeOK

\* A result that the user stopped, or that was late, while its statement was suspended in a
\* transaction of its own leaves nothing behind, in PostgreSQL and in SQLite.
StoppedIsUndone == PgStoppedIsUndone /\ SqStoppedIsUndone

\* Each driver implements the session that the connection actor relies on.
SessionsKeepTheirPromise == MyKeepsItsPromise /\ PgKeepsItsPromise /\ SqKeepsItsPromise
=============================================================================

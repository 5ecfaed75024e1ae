------------------------------ MODULE MCEngine ------------------------------
\* Engine on two services: every shape of the first, beside a second one that is
\* absent, not PostgreSQL, of another major, of the expected one, or silent.
EXTENDS Engine

E(there, query, command, major, conf, running, pid) ==
  [there |-> there, query |-> query, command |-> command, major |-> major,
   conf |-> conf, running |-> running, pid |-> pid]

First ==
  {E(there, "works", command, major, conf, "no", 0) :
     there \in {"yes", "no"}, command \in {"notPgctl", "noData", "plain", "port", "badPort"},
     major \in {0, 17, 14}, conf \in {0, 5432, 5433}}
  \cup {E("yes", "works", command, major, conf, "yes", pid) :
          command \in {"plain", "port"}, major \in {17, 14}, conf \in {0, 5432, 5433},
          pid \in {0, 5432, 5433}}
  \cup {E("yes", "works", "plain", 17, 5432, "no", 5433),
        E("yes", "fails", "plain", 17, 5432, "no", 0),
        E("yes", "noStatus", "plain", 17, 5432, "yes", 5432),
        E("yes", "noStatus", "notPgctl", 0, 0, "yes", 0)}
Second ==
  {E("no", "works", "plain", 17, 5433, "no", 0), E("yes", "works", "notPgctl", 0, 0, "no", 0),
   E("yes", "works", "plain", 14, 5433, "yes", 5433), E("yes", "works", "plain", 17, 5433, "no", 0),
   E("yes", "fails", "plain", 14, 5433, "no", 0), E("yes", "noStatus", "plain", 17, 5433, "yes", 5433)}
MCMachines == {[name \in {"postgresql", "pg"} |-> IF name = "postgresql" THEN a ELSE b] :
                 a \in First, b \in Second}
=============================================================================

----------------------------- MODULE Provisioning -----------------------------
(***************************************************************************)
(* The provisioning worker: it gives every new employee a temporary        *)
(* password by SMS.  Each round reads one batch of candidates, the lowest  *)
(* ids first, and works through it, committing (or rolling back) one       *)
(* employee at a time.  Whoever cannot be reached stays a candidate, and   *)
(* is in every batch again.                                                *)
(***************************************************************************)
EXTENDS Integers, FiniteSets, FiniteSetsExt

CONSTANTS
  Korisnik,   \* ids of employees
  BatchSize,  \* settings.provisioning_batch_size
  MaxSmetnji  \* assumed: employees who cannot be reached at all

ASSUME ConstantsAssumption ==
  /\ Korisnik \subseteq Nat /\ IsFiniteSet(Korisnik)
  /\ BatchSize \in Nat \ {0}
  /\ MaxSmetnji \in 0 .. BatchSize - 1

VARIABLES
  korisnici,  \* the row of each employee
  smetnja,    \* what keeps the employee from being provisioned, for ever
  posao       \* the round of the worker

vars == <<korisnici, smetnja, posao>>

-----------------------------------------------------------------------------

\* "no phone": none, an invalid one, or one the gateway always refuses.
Smetnja == {"none", "no phone", "raises"}

Nalog == [stanje : {"absent", "employed", "left"}, lozinka : BOOLEAN]

\* pc: between two rounds, working on the head of the batch, committing it, stopped.
Posao == [pc : {"idle", "work", "commit", "down"}, batch : SUBSET Korisnik]

Init ==
  /\ korisnici = [u \in Korisnik |-> [stanje |-> "absent", lozinka |-> FALSE]]
  /\ smetnja \in [Korisnik -> Smetnja]
  /\ Cardinality({u \in Korisnik : smetnja[u] # "none"}) <= MaxSmetnji
  /\ posao = [pc |-> "idle", batch |-> {}]

-----------------------------------------------------------------------------
(* The HR synchronisation, and administrators *)

\* A new employee is inserted without a password.
synchronise(u) ==
  /\ korisnici[u].stanje = "absent"
  /\ korisnici' = [korisnici EXCEPT ![u].stanje = "employed"]
  /\ UNCHANGED <<smetnja, posao>>

\* An employee leaves, or his account is disabled.
deactivate(u) ==
  /\ korisnici[u].stanje = "employed"
  /\ korisnici' = [korisnici EXCEPT ![u].stanje = "left"]
  /\ UNCHANGED <<smetnja, posao>>

-----------------------------------------------------------------------------
(* provision_pending *)

candidates_for_provisioning ==
  {u \in Korisnik : korisnici[u].stanje = "employed" /\ ~korisnici[u].lozinka}

\* The n lowest ids of S.
lowest(n, S) == {u \in S : Cardinality({v \in S : v < u}) < n}

list_candidates_for_provisioning ==
  /\ posao.pc = "idle"
  /\ candidates_for_provisioning # {}
  /\ posao' = [pc |-> "work", batch |-> lowest(BatchSize, candidates_for_provisioning)]
  /\ UNCHANGED <<korisnici, smetnja>>

\* The candidates of the batch in order.
head(u) == posao.pc \in {"work", "commit"} /\ u = Min(posao.batch)

next(u) == LET rest == posao.batch \ {u}
           IN posao' = [pc |-> IF rest = {} THEN "idle" ELSE "work", batch |-> rest]

\* No phone, an invalid one, or an SMS the gateway refuses, which happens to anyone
\* now and then: an audit row is all that is committed.
skip(u) ==
  /\ head(u) /\ posao.pc = "work"
  /\ smetnja[u] # "raises"
  /\ next(u)
  /\ UNCHANGED <<korisnici, smetnja>>

\* The SMS is accepted; the password is stored with the commit.
send_sms(u) ==
  /\ head(u) /\ posao.pc = "work"
  /\ smetnja[u] = "none"
  /\ posao' = [posao EXCEPT !.pc = "commit"]
  /\ UNCHANGED <<korisnici, smetnja>>

\* (mutant) the failure of one employee ends the round
batch_abandoned(u) ==
  /\ head(u)
  /\ posao.pc = "commit" \/ smetnja[u] # "no phone"
  /\ posao' = [pc |-> "idle", batch |-> {}]
  /\ UNCHANGED <<korisnici, smetnja>>

\* The commit fails, or the work on this employee raises: rolled back.
rollback(u) ==
  /\ head(u)
  /\ posao.pc = "commit" \/ smetnja[u] # "no phone"
  /\ next(u)
  /\ UNCHANGED <<korisnici, smetnja>>

\* Written without a look at what has become of the employee since the batch was read.
commit(u) ==
  /\ head(u) /\ posao.pc = "commit"
  /\ korisnici' = [korisnici EXCEPT ![u].lozinka = TRUE]
  /\ next(u)
  /\ UNCHANGED smetnja

crash ==
  /\ posao.pc \in {"work", "commit"}
  /\ posao' = [pc |-> "down", batch |-> {}]
  /\ UNCHANGED <<korisnici, smetnja>>

\* A new worker, which starts with a round of its own.
start ==
  /\ posao.pc = "down"
  /\ posao' = [posao EXCEPT !.pc = "idle"]
  /\ UNCHANGED <<korisnici, smetnja>>

-----------------------------------------------------------------------------

provision(u) == skip(u) \/ send_sms(u) \/ rollback(u) \/ commit(u)

Next ==
  \/ list_candidates_for_provisioning
  \/ crash \/ start
  \/ \E u \in Korisnik : synchronise(u) \/ deactivate(u) \/ provision(u)

\* The job runs every few minutes, max_instances = 1; the gateway accepts and the
\* database commits if they are asked again and again.
Fairness ==
  /\ WF_vars(list_candidates_for_provisioning)
  /\ WF_vars(\E u \in Korisnik : provision(u))
  /\ \A u \in Korisnik : SF_vars(send_sms(u)) /\ SF_vars(commit(u))

Spec == Init /\ [][Next]_vars /\ Fairness

-----------------------------------------------------------------------------

\* A new employee with a phone gets his password, whoever else cannot be reached or
\* fails again and again, as long as these do not fill a batch, the worker is not
\* stopped for ever and he does not leave.
EveryoneIsProvisioned ==
  <>[](posao.pc # "down") =>
    \A u \in Korisnik :
      korisnici[u].stanje = "employed" /\ smetnja[u] = "none"
        ~> korisnici[u].stanje = "left" \/ korisnici[u].lozinka
=============================================================================

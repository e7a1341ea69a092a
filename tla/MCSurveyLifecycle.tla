-------------------------- MODULE MCSurveyLifecycle --------------------------
(* Contents for TLC, and two parts checked side by side: the dates of a     *)
(* survey with one content, and its content and employees at one instant.   *)
EXTENDS SurveyLifecycle, TLC

CONSTANTS k1, k2

\* For the unit of k1, for nobody, and for everybody with questions that do not pass.
PoCelini == {[ispravna |-> TRUE, ciljevi |-> {[vrsta |-> "ORGJED", ljudi |-> {k1}]}]}
Sadrzaji == PoCelini \cup
  {[ispravna |-> TRUE, ciljevi |-> {}],
   [ispravna |-> FALSE, ciljevi |-> {[vrsta |-> "SVI", ljudi |-> Korisnik]}]}

VARIABLE deo

MCInit ==
  /\ Init /\ deo \in {"rokovi", "ljudi"}
  /\ deo = "rokovi" => struktura \in PoCelini /\ aktivni = Korisnik
  /\ deo = "ljudi" => anketa.kraj = anketa.pocetak + 1
MCNext ==
  /\ Next /\ deo' = deo
  /\ deo = "rokovi" =>
       /\ aktivni' = aktivni
       /\ \A a \in Thread : posao'[a].sadrzaj \subseteq {struktura}
  /\ deo = "ljudi" =>
       /\ now' = now
       /\ \A a \in Admin : posao'[a].pc = "update" =>
            posao'[a].new.pocetak = anketa.pocetak /\ posao'[a].new.kraj = anketa.kraj

MCSpec == MCInit /\ [][MCNext]_<<vars, deo>> /\ WF_vars(Discovery)
=============================================================================

----------------------------- MODULE SharedProofs -----------------------------
(***************************************************************************)
(* Proofs about components that share no state, each in a section of its   *)
(* own: GatePetersonN, RcmServer and its table of symbols, RcmSymbols, the *)
(* power management, IpcPower, and Notify.                                 *)
(***************************************************************************)
EXTENDS GatePetersonN, RcmServer, RcmSymbols, IpcPower, Notify, FiniteSetTheorems, SequenceTheorems,
        WellFoundedInduction, TLAPS

(* GatePetersonN, for any number of processors and threads: the variables  *)
(* keep their types, the filter holds at every stage, and at most one      *)
(* processor is let through.                                               *)
(*                                                                         *)
(* Say that a processor has signed in at a stage once it has written       *)
(* lastProcEnteringStage there.  The inductive invariant says that the     *)
(* last one named at a stage is signed in as long as anyone is             *)
(* (SignerPresent), that a processor which has passed a stage is not the   *)
(* one named there unless it is alone (PasserNotLast), and that this holds *)
(* already, during the scan, of the processors looked at (ScannedNotLast). *)
(* Were two processors in, the ones named at the N - 1 stages would be     *)
(* different processors other than those two: one too many.                *)

Reading(p) == pc[p] \in {"readStage", "readLast"}
Passed(p, s) == curStage[p] > s
Signed(p, s) == Passed(p, s) \/ (curStage[p] = s /\ Reading(p))

StageOfPc ==
    \A p \in Procs :
        /\ pc[p] \in {"out", "leaveLocal"} =>
               curStage[p] = 0 /\ enteredStage[p] = NOT_INTERESTED
        /\ pc[p] = "setStage" => curStage[p] < N - 1 /\ enteredStage[p] = curStage[p] - 1
        /\ pc[p] \in {"setLast", "readStage", "readLast"} =>
               curStage[p] < N - 1 /\ enteredStage[p] = curStage[p]
        /\ pc[p] \in {"in", "clearStage"} =>
               curStage[p] = N - 1 /\ enteredStage[p] = curStage[p] - 1
        /\ Reading(p) => proc[p] # p

NestedCount ==
    \A p \in Procs :
        /\ pc[p] = "in" => nested[p] >= 1
        /\ pc[p] \notin {"in", "out", "clearStage", "leaveLocal"} => nested[p] = 1
        /\ pc[p] \in {"out", "clearStage", "leaveLocal"} => nested[p] = 0

SignerPresent ==
    \A p \in Procs, s \in Stages : Signed(p, s) => Signed(lastProcEnteringStage[s], s)

PasserNotLast ==
    \A p, q \in Procs, s \in Stages :
        p # q /\ Passed(p, s) /\ Signed(q, s) => lastProcEnteringStage[s] # p

ScannedNotLast ==
    \A p, q \in Procs, s \in Stages :
        Reading(p) /\ s = curStage[p] /\ q < proc[p] /\ q # p /\ Signed(q, s)
            => lastProcEnteringStage[s] # p

IInv ==
    /\ TypeOK
    /\ StageOfPc
    /\ NestedCount
    /\ SignerPresent
    /\ PasserNotLast
    /\ ScannedNotLast

Filter == SignerPresent /\ PasserNotLast /\ ScannedNotLast

-----------------------------------------------------------------------------
(* The initial states satisfy the inductive invariant. *)
LEMMA InitInv == Init => IInv
BY NAssumption, NestAssumption
   DEF NAssumption, NestAssumption, Init, IInv, TypeOK, StageOfPc,
       NestedCount, SignerPresent, PasserNotLast,
       ScannedNotLast, Signed, Passed, Reading, NOT_INTERESTED, Procs, Stages

(* Processors and stages are numbers. *)
LEMMA Ranges ==
    /\ \A p \in Procs : p \in Int /\ 0 <= p /\ p < N
    /\ \A p \in Int : 0 <= p /\ p < N => p \in Procs
    /\ \A s \in Stages : s \in Int /\ 0 <= s /\ s < N - 1
    /\ \A s \in Int : 0 <= s /\ s < N - 1 => s \in Stages
    /\ \A t \in Threads : Home[t] \in Procs
    /\ N \in Int /\ N >= 1
BY NAssumption, HomeAssumption DEF NAssumption, HomeAssumption, Procs, Stages

(* The types of one processor's variables. *)
LEMMA TypesAt ==
    TypeOK => \A p \in Procs :
        /\ curStage[p] \in Int /\ 0 <= curStage[p] /\ curStage[p] <= N - 1
        /\ enteredStage[p] \in Int
        /\ proc[p] \in Procs
        /\ nested[p] \in Int /\ 0 <= nested[p] /\ nested[p] <= MaxNest
        /\ pc[p] \in {"out", "leaveLocal", "setStage", "setLast", "readStage",
                      "readLast", "in", "clearStage"}
<1> SUFFICES ASSUME TypeOK, NEW p \in Procs
             PROVE  /\ curStage[p] \in Int /\ 0 <= curStage[p] /\ curStage[p] <= N - 1
                    /\ enteredStage[p] \in Int
                    /\ proc[p] \in Procs
                    /\ nested[p] \in Int /\ 0 <= nested[p] /\ nested[p] <= MaxNest
                    /\ pc[p] \in {"out", "leaveLocal", "setStage", "setLast", "readStage",
                                  "readLast", "in", "clearStage"}
  OBVIOUS
<1>1. curStage[p] \in 0..N-1 BY DEF TypeOK
<1>2. enteredStage[p] \in Stages \cup {NOT_INTERESTED} BY DEF TypeOK
<1>3. nested[p] \in 0..MaxNest BY DEF TypeOK
<1>6. MaxNest \in Int BY NestAssumption DEF NestAssumption
<1>4. /\ proc[p] \in Procs
      /\ pc[p] \in {"out", "setStage", "setLast", "readStage", "readLast",
                    "in", "clearStage", "leaveLocal"}
  BY DEF TypeOK
<1>5. enteredStage[p] \in Int BY <1>2, Ranges DEF NOT_INTERESTED
<1> QED BY <1>1, <1>3, <1>4, <1>5, <1>6, Ranges

(* The functions among the variables are functions on processors, or stages. *)
LEMMA Domains ==
    TypeOK => /\ DOMAIN enteredStage = Procs /\ DOMAIN lastProcEnteringStage = Stages
              /\ DOMAIN owner = Procs /\ DOMAIN nested = Procs /\ DOMAIN pc = Procs
              /\ DOMAIN curStage = Procs /\ DOMAIN proc = Procs
              /\ \A s \in Stages : lastProcEnteringStage[s] \in Procs
BY DEF TypeOK

(* A step that neither signs in, passes a stage nor scans keeps the filter. *)
LEMMA FilterKept ==
    ASSUME TypeOK, Filter, UNCHANGED <<lastProcEnteringStage, curStage, proc>>,
           \A p \in Procs : Reading(p)' <=> Reading(p)
    PROVE  Filter'
<1>1. \A p \in Procs, s \in Stages : /\ Passed(p, s)' <=> Passed(p, s)
                                     /\ Signed(p, s)' <=> Signed(p, s)
  BY DEF Signed, Passed
<1>2. SignerPresent' BY <1>1 DEF Filter, SignerPresent, TypeOK
<1>3. PasserNotLast' BY <1>1 DEF Filter, PasserNotLast
<1>4. ScannedNotLast' BY <1>1 DEF Filter, ScannedNotLast
<1> QED BY <1>2, <1>3, <1>4 DEF Filter

(* What a processor has signed in at, its published stage shows. *)
LEMMA SignedShows ==
    ASSUME TypeOK, StageOfPc, NEW p \in Procs, NEW s \in Stages, Signed(p, s)
    PROVE  enteredStage[p] >= s
<1>1. curStage[p] >= s /\ (Reading(p) \/ curStage[p] > s)
  BY TypesAt, Ranges DEF Signed, Passed
<1> QED BY <1>1, TypesAt, Ranges DEF StageOfPc, Reading, NOT_INTERESTED

(* enter, to the point where the climb begins.                             *)
LEMMA EnterInv ==
    ASSUME IInv, NEW t \in Threads, Enter(t)
    PROVE  IInv'
<1> USE TypesAt, Domains, Ranges DEF IInv, shared
<1> DEFINE p == Home[t]
<1>0. p \in Procs OBVIOUS
<1>1. \/ pc[p] = "in" /\ nested[p] >= 1 /\ pc' = [pc EXCEPT ![p] = "in"]
      \/ pc[p] = "out" /\ nested[p] = 0 /\ pc' = [pc EXCEPT ![p] = StartOfStage(0)]
  <2>1. /\ pc[p] = "in" => nested[p] >= 1
        /\ pc[p] = "out" => nested[p] = 0
        /\ nested[p] \in Int
    BY <1>0 DEF NestedCount
  <2>2. /\ pc[p] \in {"in", "out"}
        /\ pc' = [pc EXCEPT ![p] = IF nested[p] + 1 > 1 THEN "in" ELSE StartOfStage(0)]
    BY DEF Enter, Goto
  <2>3. CASE pc[p] = "in"
    <3>1. nested[p] + 1 > 1 BY <2>1, <2>3
    <3> QED BY <2>1, <2>2, <2>3, <3>1
  <2>4. CASE pc[p] = "out"
    <3>1. ~(nested[p] + 1 > 1) BY <2>1, <2>4
    <3> QED BY <2>1, <2>2, <2>4, <3>1
  <2> QED BY <2>2, <2>3, <2>4
<1>2. \A q \in Procs : Reading(q)' <=> Reading(q)
  BY <1>0, <1>1 DEF Reading, StartOfStage
<1>3. Filter' BY <1>2, FilterKept DEF Enter, Filter
<1>4. TypeOK'
  <2>1. nested[p] + 1 \in 0..MaxNest BY <1>0, NestAssumption DEF NestAssumption, Enter
  <2> QED BY <1>0, <1>1, <2>1 DEF Enter, StartOfStage, TypeOK
<1>5. StageOfPc' BY <1>0, <1>1 DEF Enter, StageOfPc, StartOfStage, Reading, NOT_INTERESTED
<1>6. NestedCount' BY <1>0, <1>1 DEF Enter, NestedCount, StartOfStage
<1> QED BY <1>3, <1>4, <1>5, <1>6 DEF Filter

(* A processor signs in at its next stage.                                 *)
LEMMA SetStageInv ==
    ASSUME IInv, NEW p \in Procs, SetStage(p)
    PROVE  IInv'
<1> USE TypesAt, Domains, Ranges DEF IInv, shared, SetStage, Goto
<1>1. TypeOK' BY DEF TypeOK, StageOfPc
<1>2. StageOfPc' BY DEF StageOfPc, Reading
<1>3. NestedCount' BY DEF NestedCount
<1>4. Filter' BY FilterKept DEF Filter, Reading
<1> QED BY <1>1, <1>2, <1>3, <1>4 DEF Filter

(* It names itself last there.                                             *)
LEMMA SetLastInv ==
    ASSUME IInv, NEW p \in Procs, SetLast(p)
    PROVE  IInv'
<1> USE TypesAt, Domains, Ranges DEF IInv, shared
<1> DEFINE at == curStage[p]
<1>0. /\ at \in Stages /\ N > 1
      /\ NextOther(p, 0) \in Procs /\ NextOther(p, 0) # p
      /\ \A q \in Procs : q < NextOther(p, 0) => q = p
  BY DEF SetLast, StageOfPc, NextOther
<1>1. /\ pc[p] = "setLast" /\ pc' = [pc EXCEPT ![p] = "readStage"]
      /\ lastProcEnteringStage' = [lastProcEnteringStage EXCEPT ![at] = p]
      /\ proc' = [proc EXCEPT ![p] = NextOther(p, 0)]
      /\ UNCHANGED <<enteredStage, owner, nested, curStage>>
  BY DEF SetLast, Goto
<1>2. TypeOK' BY <1>0, <1>1 DEF TypeOK
<1>3. StageOfPc' BY <1>0, <1>1 DEF StageOfPc, Reading
<1>4. NestedCount' BY <1>1 DEF NestedCount
<1>5. \A q \in Procs, s \in Stages :
          /\ Passed(q, s)' <=> Passed(q, s)
          /\ Signed(q, s)' <=> Signed(q, s) \/ (q = p /\ s = at)
  BY <1>0, <1>1 DEF Signed, Passed, Reading
<1>6. SignerPresent' BY <1>0, <1>1, <1>5 DEF SignerPresent
<1>7. PasserNotLast'
  <2> SUFFICES ASSUME NEW a \in Procs, NEW b \in Procs, NEW s \in Stages,
                      a # b, Passed(a, s), Signed(b, s) \/ (b = p /\ s = at)
               PROVE  lastProcEnteringStage'[s] # a
    BY <1>5 DEF PasserNotLast
  <2>1. CASE s = at
    <3>1. a # p BY <2>1, <1>0 DEF Passed
    <3> QED BY <3>1, <2>1, <1>0, <1>1
  <2>2. CASE s # at BY <2>2, <1>1 DEF PasserNotLast
  <2> QED BY <2>1, <2>2
<1>8. ScannedNotLast'
  <2> SUFFICES ASSUME NEW a \in Procs, NEW b \in Procs, NEW s \in Stages, Reading(a)',
                      s = curStage'[a], b < proc'[a], b # a, Signed(b, s)'
               PROVE  lastProcEnteringStage'[s] # a
    BY DEF ScannedNotLast
  <2>1. a # p BY <1>0, <1>1
  <2>2. Reading(a) /\ proc'[a] = proc[a] /\ curStage'[a] = curStage[a]
    BY <2>1, <1>1 DEF Reading
  <2>3. CASE s = at BY <2>1, <2>3, <1>0, <1>1
  <2>4. CASE s # at BY <2>2, <2>4, <1>0, <1>1, <1>5 DEF ScannedNotLast
  <2> QED BY <2>3, <2>4
<1> QED BY <1>2, <1>3, <1>4, <1>6, <1>7, <1>8

-----------------------------------------------------------------------------
(* The wait for the processor proc[p] is over, because it is not signed in
   at the stage or another has signed in last: all three parts of the filter
   go on to the next processor, or to the end of the stage. *)
LEMMA PassProcInv ==
    ASSUME IInv, NEW p \in Procs, Reading(p), PassProc(p),
           Signed(proc[p], curStage[p]) => lastProcEnteringStage[curStage[p]] # p,
           UNCHANGED <<shared, owner, nested>>
    PROVE  IInv'
<1> USE TypesAt, Domains, Ranges DEF IInv, shared
<1> DEFINE at == curStage[p]  next == NextOther(p, proc[p] + 1)
<1>0. /\ at \in Stages /\ at + 1 \in 0..N-1 /\ N > 1
      /\ next > proc[p] /\ next \in Nat /\ next # p
      /\ \A q \in Procs : q < next => q < proc[p] \/ q = proc[p] \/ q = p
  <2>1. at \in Int /\ 0 <= at /\ at < N - 1 /\ proc[p] \in Procs
    BY DEF StageOfPc, Reading
  <2>2. proc[p] \in Int /\ p \in Int /\ 0 <= proc[p] BY <2>1
  <2>3. next = (IF proc[p] + 1 = p THEN proc[p] + 2 ELSE proc[p] + 1)
    BY <2>2 DEF NextOther
  <2>4. next > proc[p] /\ next \in Nat /\ next # p BY <2>2, <2>3
  <2>5. \A q \in Procs : q < next => q < proc[p] \/ q = proc[p] \/ q = p
    <3> TAKE q \in Procs
    <3>1. q \in Int OBVIOUS
    <3> QED BY SMTT(30), <2>2, <2>3, <3>1
  <2>6. at \in Stages /\ at + 1 \in 0..N-1 /\ N > 1 BY <2>1
  <2> QED BY <2>4, <2>5, <2>6
<1>1. ASSUME NEW q \in Procs, q < next, q # p, Signed(q, at)
      PROVE  lastProcEnteringStage[at] # p
  BY <1>0, <1>1 DEF ScannedNotLast
<1>2. CASE /\ next < N
           /\ proc' = [proc EXCEPT ![p] = next]
           /\ Goto(p, "readStage")
           /\ UNCHANGED curStage
  <2> USE <1>2 DEF Goto
  <2>1. TypeOK' BY <1>0 DEF TypeOK
  <2>2. StageOfPc' BY <1>0 DEF StageOfPc, Reading
  <2>3. NestedCount' BY DEF NestedCount, Reading
  <2>4. \A q \in Procs, s \in Stages : /\ Passed(q, s)' <=> Passed(q, s)
                                       /\ Signed(q, s)' <=> Signed(q, s)
    BY DEF Signed, Passed, Reading
  <2>5. SignerPresent' /\ PasserNotLast' BY <2>4 DEF SignerPresent, PasserNotLast
  <2>6. ScannedNotLast'
    <3> SUFFICES ASSUME NEW a \in Procs, NEW b \in Procs, NEW s \in Stages, Reading(a)',
                        s = curStage'[a], b < proc'[a], b # a, Signed(b, s)'
                 PROVE  lastProcEnteringStage'[s] # a
      BY DEF ScannedNotLast
    <3>1. Reading(a) /\ s = curStage[a] /\ Signed(b, s)
      BY <2>4, <1>0 DEF Reading
    <3>2. CASE a = p BY <3>1, <3>2, <1>1
    <3>3. CASE a # p BY <3>1, <3>3 DEF ScannedNotLast
    <3> QED BY <3>2, <3>3
  <2> QED BY <2>1, <2>2, <2>3, <2>5, <2>6
<1>3. CASE /\ next >= N
           /\ proc' = [proc EXCEPT ![p] = 0]
           /\ curStage' = [curStage EXCEPT ![p] = @ + 1]
           /\ Goto(p, StartOfStage(curStage[p] + 1))
  <2> USE <1>3 DEF Goto
  <2>0. ~Reading(p)' /\ pc'[p] \in {"setStage", "in"} BY DEF Reading, StartOfStage
  <2>1. TypeOK' BY <1>0, <2>0 DEF TypeOK
  <2>2. StageOfPc' BY <1>0, <2>0 DEF StageOfPc, Reading, StartOfStage
  <2>3. NestedCount' BY <2>0 DEF NestedCount, Reading
  <2>4. \A q \in Procs, s \in Stages :
            /\ Passed(q, s)' <=> Passed(q, s) \/ (q = p /\ s = at)
            /\ Signed(q, s)' <=> Signed(q, s)
    BY <1>0, <2>0 DEF Signed, Passed, Reading
  <2>5. SignerPresent' BY <2>4 DEF SignerPresent
  <2>6. \A q \in Procs : q # p /\ Signed(q, at) => lastProcEnteringStage[at] # p
    BY <1>1, <1>0
  <2>7. PasserNotLast' BY <2>4, <2>6 DEF PasserNotLast
  <2>8. ScannedNotLast'
    <3> SUFFICES ASSUME NEW a \in Procs, NEW b \in Procs, NEW s \in Stages, Reading(a)',
                        s = curStage'[a], b < proc'[a], b # a, Signed(b, s)'
                 PROVE  lastProcEnteringStage'[s] # a
      BY DEF ScannedNotLast
    <3>1. a # p /\ Reading(a) /\ curStage'[a] = curStage[a] /\ proc'[a] = proc[a]
      BY <2>0 DEF Reading
    <3>2. Signed(b, s) BY <2>4
    <3> QED BY <3>1, <3>2 DEF ScannedNotLast
  <2> QED BY <2>1, <2>2, <2>3, <2>5, <2>7, <2>8
<1> QED BY <1>2, <1>3 DEF PassProc

(* Going from one operand of the wait to the other changes nothing else. *)
LEMMA StillReading ==
    ASSUME IInv, NEW p \in Procs, Reading(p),
           Goto(p, "readStage") \/ Goto(p, "readLast"),
           UNCHANGED <<shared, owner, nested, curStage, proc>>
    PROVE  IInv'
<1> USE TypesAt, Domains, Ranges DEF IInv, shared, Goto, shared
<1>1. TypeOK' BY DEF TypeOK
<1>2. StageOfPc' BY DEF StageOfPc, Reading
<1>3. NestedCount' BY DEF NestedCount, Reading
<1>4. Filter' BY FilterKept DEF Filter, Reading
<1> QED BY <1>1, <1>2, <1>3, <1>4 DEF Filter

(* It looks at the others of its stage, and goes on or waits.              *)
LEMMA ReadInv ==
    ASSUME IInv, NEW p \in Procs, ReadStage(p) \/ ReadLast(p)
    PROVE  IInv'
<1>1. Reading(p) BY DEF Reading, ReadStage, ReadLast
<1>2. curStage[p] \in Stages /\ proc[p] \in Procs
  BY <1>1, TypesAt, Ranges DEF IInv, StageOfPc, Reading
<1>3. CASE ReadStage(p) /\ enteredStage[proc[p]] < curStage[p] /\ PassProc(p)
  <2>1. enteredStage[proc[p]] \in Int BY <1>2, TypesAt DEF IInv
  <2>2. ~(enteredStage[proc[p]] >= curStage[p]) BY <1>2, <1>3, <2>1, Ranges
  <2>3. ~Signed(proc[p], curStage[p]) BY <1>2, <2>2, SignedShows DEF IInv
  <2> QED BY <1>1, <1>3, <2>3, PassProcInv DEF ReadStage
<1>4. CASE ReadLast(p) /\ lastProcEnteringStage[curStage[p]] # p /\ PassProc(p)
  BY <1>1, <1>4, PassProcInv DEF ReadLast
<1>5. CASE /\ Goto(p, "readStage") \/ Goto(p, "readLast")
           /\ UNCHANGED <<shared, owner, nested, curStage, proc>>
  BY <1>1, <1>5, StillReading
<1> QED BY <1>3, <1>4, <1>5 DEF ReadStage, ReadLast

-----------------------------------------------------------------------------
(* leave, up to the signing out.                                           *)
LEMMA LeaveInv ==
    ASSUME IInv, NEW t \in Threads, Leave(t)
    PROVE  IInv'
<1> USE TypesAt, Domains, Ranges DEF IInv, shared
<1> DEFINE p == Home[t]
<1>0. p \in Procs OBVIOUS
<1>1. /\ nested[p] \in 1..MaxNest /\ nested' = [nested EXCEPT ![p] = @ - 1]
      /\ pc[p] = "in" /\ pc'[p] \in {"in", "clearStage"}
      /\ pc' = [pc EXCEPT ![p] = IF nested[p] - 1 = 0 THEN "clearStage" ELSE "in"]
      /\ UNCHANGED <<shared, owner, curStage, proc>>
  <2>1. pc[p] = "in" /\ nested[p] >= 1 /\ nested[p] \in Int /\ nested[p] <= MaxNest
    BY <1>0 DEF Leave, NestedCount
  <2>2. nested[p] \in 1..MaxNest BY <2>1, NestAssumption DEF NestAssumption
  <2>3. pc' = [pc EXCEPT ![p] = IF nested[p] - 1 = 0 THEN "clearStage" ELSE "in"]
    BY DEF Leave, Goto
  <2>4. pc'[p] \in {"in", "clearStage"} BY <1>0, <2>3
  <2> QED BY <2>1, <2>2, <2>3, <2>4 DEF Leave
<1>2. TypeOK'
  <2>1. nested[p] - 1 \in 0..MaxNest BY <1>1, NestAssumption DEF NestAssumption
  <2> QED BY <1>0, <1>1, <2>1 DEF TypeOK
<1>3. StageOfPc' BY <1>0, <1>1 DEF StageOfPc, Reading, shared
<1>4. NestedCount' BY <1>0, <1>1 DEF NestedCount
<1>5. Filter' BY <1>0, <1>1, FilterKept DEF Filter, Reading, shared
<1> QED BY <1>2, <1>3, <1>4, <1>5 DEF Filter

(* The local gate is given back.                                           *)
LEMMA LeaveLocalInv ==
    ASSUME IInv, NEW p \in Procs, LeaveLocal(p)
    PROVE  IInv'
<1> USE TypesAt, Domains, Ranges DEF IInv, shared, LeaveLocal, Goto, shared
<1>1. TypeOK' BY DEF TypeOK
<1>2. StageOfPc' BY DEF StageOfPc, Reading
<1>3. NestedCount' BY DEF NestedCount
<1>4. Filter' BY FilterKept DEF Filter, Reading
<1> QED BY <1>1, <1>2, <1>3, <1>4 DEF Filter

(* A processor that leaves was past every stage, so it is named at none where
   another one has signed in. *)
LEMMA ClearStageInv ==
    ASSUME IInv, NEW p \in Procs, ClearStage(p)
    PROVE  IInv'
<1> USE TypesAt, Domains, Ranges DEF IInv, shared, ClearStage, Goto
<1>1. TypeOK' BY DEF TypeOK, NOT_INTERESTED
<1>2. StageOfPc' BY DEF StageOfPc, Reading
<1>3. NestedCount' BY DEF NestedCount
<1>4. \A s \in Stages : Passed(p, s) /\ ~Signed(p, s)' /\ ~Passed(p, s)'
  BY DEF StageOfPc, Passed, Signed, Reading
<1>5. \A q \in Procs, s \in Stages :
          q # p => /\ Passed(q, s)' <=> Passed(q, s)
                   /\ Signed(q, s)' <=> Signed(q, s)
  BY DEF Passed, Signed, Reading
<1>6. SignerPresent'
  <2> SUFFICES ASSUME NEW q \in Procs, NEW s \in Stages, Signed(q, s)'
               PROVE  Signed(lastProcEnteringStage[s], s)'
    BY DEF SignerPresent
  <2>1. q # p /\ Signed(q, s) BY <1>4, <1>5
  <2>2. lastProcEnteringStage[s] # p BY <2>1, <1>4 DEF PasserNotLast
  <2>3. Signed(lastProcEnteringStage[s], s) BY <2>1 DEF SignerPresent
  <2> QED BY <2>2, <2>3, <1>5
<1>7. PasserNotLast' BY <1>4, <1>5 DEF PasserNotLast
<1>8. ScannedNotLast'
  <2> SUFFICES ASSUME NEW a \in Procs, NEW b \in Procs, NEW s \in Stages, Reading(a)',
                      s = curStage'[a], b < proc'[a], b # a, Signed(b, s)'
               PROVE  lastProcEnteringStage'[s] # a
    BY DEF ScannedNotLast
  <2>1. a # p /\ Reading(a) /\ curStage'[a] = curStage[a] BY DEF Reading
  <2>2. Signed(b, s) BY <1>4, <1>5
  <2> QED BY <2>1, <2>2 DEF ScannedNotLast
<1> QED BY <1>1, <1>2, <1>3, <1>6, <1>7, <1>8

(* The invariant is inductive.                                             *)
LEMMA NextInv == IInv /\ [Next]_vars => IInv'
<1> SUFFICES ASSUME IInv, [Next]_vars PROVE IInv' OBVIOUS
<1>1. CASE UNCHANGED vars
  BY <1>1 DEF vars, shared, IInv, TypeOK, StageOfPc, NestedCount, SignerPresent,
              PasserNotLast, ScannedNotLast, Signed, Passed, Reading
<1>2. ASSUME NEW t \in Threads, Enter(t) \/ Leave(t) PROVE IInv'
  BY <1>2, EnterInv, LeaveInv
<1>3. ASSUME NEW p \in Procs, Step(p) PROVE IInv'
  BY <1>3, SetStageInv, SetLastInv, ReadInv, ClearStageInv, LeaveLocalInv DEF Step
<1> QED BY <1>1, <1>2, <1>3 DEF Next

(* It holds of every behaviour.                                            *)
LEMMA Inductive == Spec => []IInv
<1>1. Init => IInv BY InitInv
<1>2. IInv /\ [Next]_vars => IInv' BY NextInv
<1> QED BY <1>1, <1>2, PTL DEF Spec

-----------------------------------------------------------------------------
(* Two processors past a stage: the one named there is held at it. *)
LEMMA FilterHolds == IInv => LastIsHeld
<1> SUFFICES ASSUME IInv, NEW p \in Procs, NEW q \in Procs, NEW s \in Stages,
                    p # q, curStage[p] > s, curStage[q] > s
             PROVE  curStage[lastProcEnteringStage[s]] = s
  BY DEF LastIsHeld
<1> DEFINE signer == lastProcEnteringStage[s]
<1>1. signer \in Procs /\ Signed(signer, s)
  BY Domains DEF IInv, SignerPresent, Signed, Passed
<1>2. ~Passed(signer, s) BY <1>1 DEF IInv, PasserNotLast, Signed, Passed
<1> QED BY <1>1, <1>2 DEF Signed

(* N - 1 stages hold N - 1 processors, so two cannot be past them all. *)
LEMMA OneGetsThrough == IInv => MutualExclusion
<1> SUFFICES ASSUME IInv, NEW a \in Procs, NEW b \in Procs, pc[a] = "in", pc[b] = "in", a # b
             PROVE  FALSE
  BY DEF MutualExclusion
<1> DEFINE Others == Procs \ {a, b}
           held == [s \in Stages |-> lastProcEnteringStage[s]]
<1>1. curStage[a] = N - 1 /\ curStage[b] = N - 1 /\ N >= 2
  BY Ranges DEF IInv, StageOfPc
<1>2. \A s \in Stages : curStage[held[s]] = s
  BY <1>1, FilterHolds, Ranges DEF LastIsHeld
<1>3. \A s \in Stages : held[s] \in Others
  BY <1>1, <1>2, Domains, Ranges DEF IInv
<1>4. held \in [Stages -> Others] BY <1>3
<1>5. IsFiniteSet(Procs) /\ Cardinality(Procs) = N
  <2>1. N - 1 \in Int /\ ~(0 > N - 1) /\ N - 1 - 0 + 1 = N BY <1>1, Ranges
  <2>2. Cardinality(0 .. N - 1) = N - 1 - 0 + 1 BY <2>1, FS_Interval
  <2>3. IsFiniteSet(0 .. N - 1) BY <2>1, FS_Interval
  <2> QED BY <2>1, <2>2, <2>3 DEF Procs
<1>6. IsFiniteSet(Stages) /\ Cardinality(Stages) = N - 1
  <2>1. N - 2 \in Int /\ ~(0 > N - 2) /\ N - 2 - 0 + 1 = N - 1 BY <1>1, Ranges
  <2>2. Cardinality(0 .. N - 2) = N - 2 - 0 + 1 BY <2>1, FS_Interval
  <2>3. IsFiniteSet(0 .. N - 2) BY <2>1, FS_Interval
  <2> QED BY <2>1, <2>2, <2>3 DEF Stages
<1>7. IsFiniteSet(Procs \ {a}) /\ Cardinality(Procs \ {a}) = N - 1
  BY <1>5, FS_RemoveElement
<1>8. Others = (Procs \ {a}) \ {b} /\ b \in Procs \ {a} OBVIOUS
<1>9. IsFiniteSet(Others) /\ Cardinality(Others) = N - 2
  <2>1. /\ IsFiniteSet((Procs \ {a}) \ {b})
        /\ Cardinality((Procs \ {a}) \ {b}) = Cardinality(Procs \ {a}) - 1
    BY <1>7, <1>8, FS_RemoveElement
  <2>2. N - 1 - 1 = N - 2 BY Ranges
  <2> QED BY <1>7, <1>8, <2>1, <2>2
<1> HIDE DEF Others, held
<1>10. \E s, t \in Stages : s # t /\ held[s] = held[t]
  <2>1. Cardinality(Others) < Cardinality(Stages) BY <1>1, <1>6, <1>9, Ranges
  <2> QED BY <2>1, <1>4, <1>6, <1>9, FS_PigeonHole
<1> QED BY <1>2, <1>10

(* The gate's variables keep their types. *)
THEOREM TypeCorrect == Spec => []TypeOK
<1>1. IInv => TypeOK BY DEF IInv
<1> QED BY <1>1, Inductive, PTL

(* At every stage the processor that signed in last is held while two others
   are past it. *)
THEOREM FilterCorrect == Spec => []LastIsHeld
BY FilterHolds, Inductive, PTL

(* GatePetersonN lets at most one of the N processors through. *)
THEOREM GateExcludes == Spec => []MutualExclusion
BY OneGetsThrough, Inductive, PTL

-----------------------------------------------------------------------------
(* RcmServer, for any pools, workers, jobs and messages.  Messages have the *)
(* number in which they were sent.  A message of a job that was taken from  *)
(* the server's queue is at a worker, ready in a pool, or waits in the job, *)
(* and at most one of a job is at a worker or ready; the ones that wait are *)
(* newer than it and than what ran, in the order they were sent.            *)

\* A set of numbers has a least one.
LEMMA LeastExists ==
  ASSUME NEW S \in SUBSET Nat, S # {} PROVE \E n \in S : \A m \in S : n <= m
<1>1. PICK n \in S : \A m \in S : ~(<<m, n>> \in OpToRel(<, Nat))
  BY NatLessThanWellFounded, WFMin
<1>2. OpToRel(<, Nat) = {ss \in Nat \X Nat : ss[1] < ss[2]}
  BY Zenon DEF OpToRel
<1>3. \A m \in S : ~(m < n)
  BY <1>1, <1>2
<1> QED
  BY <1>3

RcmMsg == [id : Nat, kind : {"none", "call", "other", "acquire", "release"}, pool : Int, job : 0 .. MaxJobs]
ServerPlaces == {"gate", "table", "pools", "workers", "run", "get", "have", "return", "post", "end"}
WorkerPlaces == {"none", "pend", "check", "process", "next", "end"}
ServerStates  == [pc : ServerPlaces, msg : RcmMsg, final : BOOLEAN]
JobStates     == [listed : BOOLEAN, empty : BOOLEAN, que : Seq(RcmMsg)]
WorkerStates  == [pc : WorkerPlaces, msg : RcmMsg, terminate : BOOLEAN]
DeleterStates == [pc : {"no", "join", "pools", "workers"}, pools : SUBSET Pools]
Queues        == Seq(RcmMsg)
RcmTypeOK ==
  /\ inbox \in Queues /\ sent \in 0 .. MaxMessages
  /\ server \in ServerStates
  /\ jobs \in [Jobs -> JobStates] /\ lastJob \in 0 .. MaxJobs
  /\ ready \in [Pools -> Queues] /\ sem \in [Pools -> Nat]
  /\ worker \in [Workers -> WorkerStates] /\ deleter \in DeleterStates
  /\ answers \in [Messages -> Int] /\ last \in [Jobs -> Nat]
  /\ fault \in BOOLEAN

\* The worker has a message and its job waits for it.
Holds(w) == worker[w].pc \in {"process", "next"}
InJob(m) == m.job # Discrete
Earlier(id) == IF server.pc = "have" THEN id < server.msg.id ELSE id <= server.msg.id
\* The message m of a job is newer than what ran and older than what waits in the job.
ItsTurn(m) ==
  /\ Earlier(m.id) /\ last[m.job] < m.id
  /\ \A k \in DOMAIN jobs[m.job].que : m.id < jobs[m.job].que[k].id

InboxOrdered ==
  /\ server.msg.id <= sent
  /\ \A i \in DOMAIN inbox :
       /\ server.msg.id < inbox[i].id /\ inbox[i].id <= sent
       /\ \A k \in DOMAIN inbox : i < k => inbox[i].id < inbox[k].id
QueOrdered ==
  \A j \in Jobs :
    /\ Earlier(last[j])
    /\ \A i \in DOMAIN jobs[j].que :
         /\ jobs[j].que[i].job = j /\ Earlier(jobs[j].que[i].id) /\ last[j] < jobs[j].que[i].id
         /\ \A k \in DOMAIN jobs[j].que : i < k => jobs[j].que[i].id < jobs[j].que[k].id
ReadyOrdered ==
  \A p \in Pools : \A i \in DOMAIN ready[p] : InJob(ready[p][i]) => ItsTurn(ready[p][i])
WorkersOrdered ==
  \A w \in Workers : worker[w].pc = "process" /\ InJob(worker[w].msg) => ItsTurn(worker[w].msg)
ReadyDistinct ==
  \A p, q \in Pools : \A i \in DOMAIN ready[p], k \in DOMAIN ready[q] :
    InJob(ready[p][i]) /\ ready[p][i].job = ready[q][k].job => p = q /\ i = k
ReadyNotHeld ==
  \A p \in Pools, w \in Workers : \A i \in DOMAIN ready[p] :
    Holds(w) /\ InJob(ready[p][i]) => ready[p][i].job # worker[w].msg.job
HeldDistinct ==
  \A v, w \in Workers :
    Holds(v) /\ Holds(w) /\ InJob(worker[v].msg) /\ worker[v].msg.job = worker[w].msg.job => v = w
EmptyIsIdle ==
  \A j \in Jobs : jobs[j].listed /\ jobs[j].empty =>
    /\ DOMAIN jobs[j].que = {}
    /\ \A p \in Pools : \A i \in DOMAIN ready[p] : ready[p][i].job # j
    /\ \A w \in Workers : Holds(w) => worker[w].msg.job # j
JobsKnown ==
  /\ \A j \in Jobs : j > lastJob => ~jobs[j].listed
  /\ \A i \in DOMAIN inbox : inbox[i].job <= lastJob
  /\ server.msg.job <= lastJob
  /\ \A p \in Pools : \A i \in DOMAIN ready[p] : ready[p][i].job <= lastJob
  /\ \A w \in Workers : worker[w].msg.job <= lastJob
NextHasJob == \A w \in Workers : worker[w].pc = "next" => InJob(worker[w].msg)
DeleterHasPool == deleter.pc = "workers" => deleter.pools # {}
RcmInv ==
  /\ InboxOrdered /\ QueOrdered /\ ReadyOrdered /\ WorkersOrdered /\ ReadyDistinct /\ ReadyNotHeld
  /\ HeldDistinct /\ EmptyIsIdle /\ JobsKnown

\* The message of a thread that has none yet.
LEMMA NoMsgType == NoMsg \in RcmMsg /\ NoMsg.id = 0 /\ NoMsg.job = 0
  BY CountAssumption DEF NoMsg, RcmMsg, Default, Discrete

\* A pool has finitely many workers, so the posts that end them are a number.
LEMMA WorkersOfPool == ASSUME NEW p PROVE IsFiniteSet(PoolWorkers(p)) /\ Posts(p) \in Nat
<1>1. IsFiniteSet({p} \X (1 .. PoolSize))
  <2>1. IsFiniteSet({p})
    BY FS_Singleton
  <2>2. IsFiniteSet(1 .. PoolSize)
    BY CountAssumption, FS_Interval
  <2> QED
    BY <2>1, <2>2, FS_Product
<1>2. ASSUME NEW w \in PoolWorkers(p) PROVE w \in {p} \X (1 .. PoolSize)
  <2>1. w \in Workers /\ PoolOf[w] = p
    BY DEF PoolWorkers
  <2>2. w[1] = p
    BY <2>1 DEF PoolOf
  <2> QED
    BY <2>1, <2>2 DEF Workers
<1>3. IsFiniteSet(PoolWorkers(p))
  BY <1>1, <1>2, FS_Subset
<1> QED
  BY <1>3, FS_CardinalityType DEF Posts

\* Answering a whole queue counts finitely many messages.
LEMMA AnswerAllType ==
  ASSUME RcmTypeOK, NEW q \in Queues, AnswerAll(q)
  PROVE  answers' \in [Messages -> Int]
<1>1. ASSUME NEW m \in Messages PROVE Cardinality({i \in DOMAIN q : q[i].id = m}) \in Nat
  <2>1. IsFiniteSet(1 .. Len(q)) /\ DOMAIN q = 1 .. Len(q)
    BY FS_Interval DEF Queues
  <2>2. {i \in DOMAIN q : q[i].id = m} \subseteq 1 .. Len(q)
    BY <2>1
  <2> QED
    BY <2>1, <2>2, FS_Subset, FS_CardinalityType
<1>2. answers \in [Messages -> Int]
  BY DEF RcmTypeOK
<1> QED
  BY <1>1, <1>2 DEF AnswerAll

\* Answering one message, wherever its id points.
LEMMA AnswerType ==
  ASSUME RcmTypeOK, NEW m, Answer(m) PROVE answers' \in [Messages -> Int]
<1>1. CASE m \in Messages
  BY <1>1 DEF RcmTypeOK, Answer
<1>2. CASE m \notin Messages
  BY <1>2 DEF RcmTypeOK, Answer
<1> QED
  BY <1>1, <1>2

\* Processing one.
LEMMA ProcessType ==
  ASSUME RcmTypeOK, NEW m, Process(m) PROVE answers' \in [Messages -> Int]
<1> DEFINE n == IF m.kind = "other" THEN Dropped ELSE answers[m.id] + 1
<1>1. answers' = [answers EXCEPT ![m.id] = n] /\ answers \in [Messages -> Int]
  BY DEF Process, RcmTypeOK
<1>2. CASE m.id \in Messages
  <2>1. n \in Int
    BY <1>1, <1>2 DEF Dropped
  <2> QED
    BY <1>1, <2>1
<1>3. CASE m.id \notin Messages
  BY <1>1, <1>3
<1> QED
  BY <1>2, <1>3

\* A counter that grows, at an index it may not have.
LEMMA CountAt ==
  ASSUME NEW D, NEW f \in [D -> Nat], NEW x, NEW n \in Nat
  PROVE  [f EXCEPT ![x] = f[x] + n] \in [D -> Nat]
<1>1. CASE x \in D
  BY <1>1
<1>2. CASE x \notin D
  BY <1>2
<1> QED
  BY <1>1, <1>2

\* An entry of the job list that is free.
LEMMA NoJobType == NoJob \in JobStates
  BY DEF NoJob, JobStates

\* RcmInit has the types.
LEMMA RcmInitType == RcmInit => RcmTypeOK
<1> SUFFICES ASSUME RcmInit PROVE RcmTypeOK
  OBVIOUS
<1>1. <<>> \in Queues
  BY DEF Queues
<1>3. server \in ServerStates
  BY NoMsgType DEF RcmInit, ServerPlaces, ServerStates
<1>4. worker \in [Workers -> WorkerStates]
  BY NoMsgType DEF RcmInit, WorkerPlaces, WorkerStates
<1>5. jobs \in [Jobs -> JobStates]
  BY NoJobType DEF RcmInit
<1>6. ready \in [Pools -> Queues] /\ inbox \in Queues
  BY <1>1 DEF RcmInit
<1>7. sem \in [Pools -> Nat] /\ answers \in [Messages -> Int] /\ last \in [Jobs -> Nat]
  BY DEF RcmInit
<1>8. deleter \in DeleterStates
  BY DEF RcmInit, DeleterStates
<1>9. sent \in 0 .. MaxMessages /\ lastJob \in 0 .. MaxJobs
  BY CountAssumption DEF RcmInit, Discrete
<1> QED
  BY <1>3, <1>4, <1>5, <1>6, <1>7, <1>8, <1>9 DEF RcmInit, RcmTypeOK

\* The server thread goes to one of its places.
LEMMA ServerGotoType ==
  ASSUME RcmTypeOK, NEW place \in ServerPlaces, ServerGoto(place) PROVE server' \in ServerStates
  BY DEF RcmTypeOK, ServerStates, ServerGoto

\* So does a worker,
LEMMA WorkerGotoType ==
  ASSUME RcmTypeOK, NEW w \in Workers, NEW place \in WorkerPlaces, WorkerGoto(w, place)
  PROVE  worker' \in [Workers -> WorkerStates]
  BY DEF RcmTypeOK, WorkerStates, WorkerGoto

\* and Instance_finalize.
LEMMA DeleterGotoType ==
  ASSUME RcmTypeOK, NEW place \in {"no", "join", "pools", "workers"}, DeleterGoto(place)
  PROVE  deleter' \in DeleterStates
  BY DEF RcmTypeOK, DeleterStates, DeleterGoto

\* A creation that failed is undone.
LEMMA UndoType ==
  ASSUME RcmTypeOK, NEW pools \in SUBSET Pools, Undo(pools)
  PROVE  server' \in ServerStates /\ deleter' \in DeleterStates
  BY DEF RcmTypeOK, Undo, ServerStates, DeleterStates, ServerPlaces

\* After a message the server thread gets the next one or ends.
LEMMA GoOnPlace == GoOn \in ServerPlaces
  BY DEF GoOn, ServerPlaces

\* A fault changes nothing else.
LEMMA FaultType == ASSUME RcmTypeOK, Fault PROVE RcmTypeOK'
  BY DEF RcmTypeOK, Fault

\* Instance_init_P keeps the types.
LEMMA CreatorType == ASSUME RcmTypeOK, CreatorStep PROVE RcmTypeOK'
<1>1. CASE Fault
  BY <1>1, FaultType
<1>2. CASE \E place \in {"table", "pools", "workers", "run"} :
             ServerGoto(place) /\ UNCHANGED <<inbox, sent, jobs, lastJob, ready, sem, worker, deleter, answers, last, fault>>
  BY <1>2, ServerGotoType DEF RcmTypeOK, ServerPlaces
<1>3. CASE \E pools \in {{}, Pools} :
             Undo(pools) /\ UNCHANGED <<inbox, sent, jobs, lastJob, ready, sem, answers, last, fault>>
  <2>1. server' \in ServerStates /\ deleter' \in DeleterStates
    BY <1>3, UndoType
  <2> QED
    BY <1>3, <2>1 DEF RcmTypeOK, Undo
<1>4. CASE \E w \in Workers : WorkerGoto(w, "pend") /\ UNCHANGED <<server, deleter>>
             /\ UNCHANGED <<inbox, sent, jobs, lastJob, ready, sem, answers, last, fault>>
  BY <1>4, WorkerGotoType DEF RcmTypeOK, WorkerPlaces
<1> QED
  BY <1>1, <1>2, <1>3, <1>4 DEF CreatorStep, InitList, InitTable, InitPools, InitWorker, InitServer

\* What a client sends is a message of one of the kinds, for a job that was given out.
LEMMA SendParts ==
  ASSUME RcmTypeOK, NEW m \in Calls \cup Acquires \cup Releases
  PROVE  m.kind \in {"call", "other", "acquire", "release"} /\ m.pool \in Int /\ m.job \in 0 .. MaxJobs
<1>0. lastJob \in 0 .. MaxJobs /\ Pools \subseteq Int /\ MaxJobs \in Nat
  BY CountAssumption DEF RcmTypeOK
<1>1. CASE m \in Calls
  <2>1. CASE \/ m \in [kind : {"call"}, pool : Pools \cup {Default, -1}, job : {Discrete}]
           \/ m \in [kind : {"other"}, pool : Pools \cup {Default}, job : {Discrete}]
    <3>1. m.kind \in {"call", "other"} /\ m.pool \in Pools \cup {0, -1} /\ m.job = 0
      BY <2>1 DEF Default, Discrete
    <3>2. m.pool \in Int
      <4>1. m.pool \in Pools \/ m.pool = 0 \/ m.pool = -1
        BY <3>1
      <4>2. 0 \in Int /\ -1 \in Int
        OBVIOUS
      <4> QED
        BY <1>0, <4>1, <4>2, Zenon
    <3>3. m.job \in 0 .. MaxJobs
      BY <1>0, <3>1
    <3> QED
      BY <3>1, <3>2, <3>3
  <2>2. CASE m \in [kind : {"call"}, pool : Pools, job : 1 .. lastJob]
    <3>1. m.kind = "call" /\ m.pool \in Pools /\ m.job \in 1 .. lastJob
      BY <2>2
    <3>2. m.pool \in Int
      BY <1>0, <3>1
    <3>3. m.job \in 0 .. MaxJobs
      BY <1>0, <3>1
    <3> QED
      BY <3>1, <3>2, <3>3
  <2> QED
    BY <1>1, <2>1, <2>2 DEF Calls
<1>2. CASE m \in Acquires
  BY <1>0, <1>2 DEF Acquires, Default, Discrete
<1>3. CASE m \in Releases
  BY <1>0, <1>3 DEF Releases, Default, Discrete
<1> QED
  BY <1>1, <1>2, <1>3

\* Sending keeps the types.
LEMMA SendType ==
  ASSUME RcmTypeOK, NEW m \in Calls \cup Acquires \cup Releases, Send(m) PROVE RcmTypeOK'
<1>1. m.kind \in {"call", "other", "acquire", "release"} /\ m.pool \in Int /\ m.job \in 0 .. MaxJobs
  BY SendParts
<1>2. sent + 1 \in 0 .. MaxMessages
  BY CountAssumption DEF Send, RcmTypeOK
<1>3. [id |-> sent + 1, kind |-> m.kind, pool |-> m.pool, job |-> m.job] \in RcmMsg
  BY <1>1, <1>2, CountAssumption DEF RcmMsg
<1>4. inbox' \in Queues
  BY <1>3 DEF Send, RcmTypeOK, Queues
<1> QED
  BY <1>2, <1>4 DEF Send, RcmTypeOK

\* The parts of a queue that has a message.
LEMMA QueueParts ==
  ASSUME NEW q \in Queues, q # <<>>
  PROVE  /\ Head(q) \in RcmMsg /\ Tail(q) \in Queues /\ Head(q) = q[1]
         /\ Len(q) \in Nat \ {0} /\ DOMAIN q = 1 .. Len(q) /\ DOMAIN Tail(q) = 1 .. Len(q) - 1
         /\ \A i \in 1 .. Len(q) - 1 : Tail(q)[i] = q[i + 1]
  BY DEF Queues

\* A queue with a message more.
LEMMA QueueGrows ==
  ASSUME NEW q \in Queues, NEW m \in RcmMsg
  PROVE  /\ Append(q, m) \in Queues
         /\ Len(q) \in Nat /\ DOMAIN q = 1 .. Len(q) /\ DOMAIN Append(q, m) = 1 .. Len(q) + 1
         /\ Append(q, m)[Len(q) + 1] = m /\ \A i \in DOMAIN q : Append(q, m)[i] = q[i]
  BY DEF Queues

\* The server thread keeps the types.
LEMMA ServerType == ASSUME RcmTypeOK, ServerStep PROVE RcmTypeOK'
<1>0. /\ Msg \in RcmMsg /\ GoOn \in ServerPlaces
      /\ {"end", "return", "post"} \subseteq ServerPlaces
  BY GoOnPlace DEF Msg, RcmTypeOK, ServerStates, ServerPlaces
<1>1. CASE ServerGets
  <2>1. CASE inbox # <<>>
    <3>1. Head(inbox) \in RcmMsg /\ Tail(inbox) \in Queues
      BY <2>1, QueueParts DEF RcmTypeOK
    <3>2. Shutdown \in BOOLEAN
      BY Zenon DEF Shutdown
    <3>3. server' \in ServerStates
      BY <1>1, <2>1, <3>1, <3>2 DEF ServerGets, ServerStates, ServerPlaces
    <3> QED
      BY <1>1, <2>1, <3>1, <3>3 DEF ServerGets, RcmTypeOK
  <2>2. CASE inbox = <<>>
    BY <1>0, <1>1, <2>2, ServerGotoType DEF ServerGets, RcmTypeOK
  <2> QED
    BY <2>1, <2>2
<1>2. CASE ServerCalls
  BY <1>0, <1>2, ServerGotoType, ProcessType DEF ServerCalls, RcmTypeOK
<1>3. CASE ServerCallsUnfound
  BY <1>3, FaultType DEF ServerCallsUnfound, CallsUnfound
<1>4. CASE ServerAcquires
  <2>1. jobs' \in [Jobs -> JobStates] /\ lastJob' \in 0 .. MaxJobs
    <3>1. [NoJob EXCEPT !.listed = TRUE] \in JobStates
      BY NoJobType DEF JobStates
    <3> QED
      BY <1>4, <3>1, CountAssumption DEF ServerAcquires, RcmTypeOK
  <2> QED
    BY <1>0, <1>4, <2>1, ServerGotoType, AnswerType DEF ServerAcquires, AnswerJob, RcmTypeOK
<1>5. CASE ServerReleases
  <2>1. jobs' \in [Jobs -> JobStates]
    <3>1. CASE Msg.job \in Jobs
      <4>1. CASE UNCHANGED jobs
        BY <4>1 DEF RcmTypeOK
      <4>2. CASE jobs' = [jobs EXCEPT ![Msg.job].listed = FALSE]
        BY <3>1, <4>2 DEF JobStates, RcmTypeOK
      <4> QED
        BY <1>5, <4>1, <4>2 DEF ServerReleases
    <3>2. CASE Msg.job \notin Jobs
      BY <1>5, <3>2 DEF ServerReleases, RcmTypeOK
    <3> QED
      BY <3>1, <3>2
  <2> QED
    BY <1>0, <1>5, <2>1, ServerGotoType, AnswerType DEF ServerReleases, AnswerJob, RcmTypeOK
<1>6. CASE ServerReturns
  <2>1. jobs' \in [Jobs -> JobStates]
    <3>1. CASE Msg.job \in Jobs /\ jobs[Msg.job].que # <<>>
      <4>1. jobs[Msg.job].que \in Queues
        BY <3>1 DEF JobStates, Queues, RcmTypeOK
      <4>2. Tail(jobs[Msg.job].que) \in Queues
        BY <3>1, <4>1, QueueParts
      <4> QED
        BY ZenonT(60), <1>6, <4>2 DEF ServerReturns, JobStates, Queues, RcmTypeOK
    <3>2. CASE ~(Msg.job \in Jobs /\ jobs[Msg.job].que # <<>>)
      BY <1>6, <3>2 DEF ServerReturns, RcmTypeOK
    <3> QED
      BY <3>1, <3>2
  <2> QED
    BY <1>0, <1>6, <2>1, ServerGotoType, AnswerType DEF ServerReturns, AnswerJob, RcmTypeOK
<1>7. CASE ServerDispatches
  <2>1. CASE Waits(Msg)
    <3>1. jobs' \in [Jobs -> JobStates]
      <4>1. Msg.job \in Jobs
        BY <1>0, <2>1 DEF Waits, RcmMsg, Jobs, Discrete
      <4>2. Append(jobs[Msg.job].que, Msg) \in Queues
        BY <1>0, <4>1 DEF JobStates, Queues, RcmTypeOK
      <4> QED
        BY ZenonT(60), <1>7, <2>1, <4>1, <4>2 DEF ServerDispatches, JobStates, Queues, RcmTypeOK
    <3> QED
      BY <1>0, <1>7, <2>1, <3>1, ServerGotoType DEF ServerDispatches, RcmTypeOK
  <2>2. CASE ~Waits(Msg)
    <3>1. jobs' \in [Jobs -> JobStates]
      <4>1. ASSUME NEW j \in Jobs PROVE [jobs[j] EXCEPT !.empty = FALSE] \in JobStates /\ jobs[j] \in JobStates
        BY DEF JobStates, RcmTypeOK
      <4> QED
        BY <1>7, <2>2, <4>1 DEF ServerDispatches
    <3>2. ready' \in [Pools -> Queues]
      <4>1. Msg.pool \in Pools
        BY <1>7 DEF ServerDispatches, Known
      <4>2. Append(ready[Msg.pool], Msg) \in Queues
        BY <1>0, <4>1 DEF Queues, RcmTypeOK
      <4> QED
        BY <1>7, <2>2, <4>1, <4>2 DEF ServerDispatches, RcmTypeOK
    <3> QED
      BY <1>0, <1>7, <2>2, <3>1, <3>2, ServerGotoType DEF ServerDispatches, RcmTypeOK
  <2> QED
    BY <2>1, <2>2
<1>8. CASE ServerPosts
  <2>1. sem' \in [Pools -> Nat]
    <3>1. CASE Msg.pool \in Pools
      BY <1>8, <3>1 DEF ServerPosts, RcmTypeOK
    <3>2. CASE Msg.pool \notin Pools
      BY <1>8, <3>2 DEF ServerPosts, RcmTypeOK
    <3> QED
      BY <3>1, <3>2
  <2> QED
    BY <1>0, <1>8, <2>1, ServerGotoType DEF ServerPosts, RcmTypeOK
<1>9. CASE ServerRefuses
  BY <1>0, <1>9, ServerGotoType, AnswerType DEF ServerRefuses, RcmTypeOK
<1> QED
  BY <1>1, <1>2, <1>3, <1>4, <1>5, <1>6, <1>7, <1>8, <1>9 DEF ServerStep

\* A worker keeps the types: the job whose next message it queues is one that exists.
LEMMA WorkerType == ASSUME RcmTypeOK, NextHasJob, NEW w \in Workers, WorkerStep(w) PROVE RcmTypeOK'
<1>0. /\ PoolOf[w] \in Pools /\ worker[w] \in WorkerStates
      /\ {"pend", "check", "process", "next", "end"} \subseteq WorkerPlaces
  BY DEF PoolOf, Workers, WorkerPlaces, RcmTypeOK
<1>1. CASE WorkerPends(w)
  <2>1. sem' \in [Pools -> Nat]
    BY <1>0, <1>1 DEF WorkerPends, RcmTypeOK
  <2> QED
    BY <1>0, <1>1, <2>1, WorkerGotoType DEF WorkerPends, RcmTypeOK
<1>2. CASE WorkerTakes(w)
  <2>1. CASE UNCHANGED ready /\ \E place \in {"end", "pend"} : WorkerGoto(w, place)
    BY <1>0, <1>2, <2>1, WorkerGotoType DEF WorkerTakes, RcmTypeOK
  <2>2. CASE /\ ready[PoolOf[w]] # <<>>
             /\ worker' = [worker EXCEPT ![w].pc = "process", ![w].msg = Head(ready[PoolOf[w]])]
             /\ ready' = [ready EXCEPT ![PoolOf[w]] = Tail(ready[PoolOf[w]])]
    <3>1. ready[PoolOf[w]] \in Queues
      BY <1>0 DEF RcmTypeOK
    <3>2. Head(ready[PoolOf[w]]) \in RcmMsg /\ Tail(ready[PoolOf[w]]) \in Queues
      BY <2>2, <3>1, QueueParts
    <3>3. ready' \in [Pools -> Queues]
      BY <2>2, <3>2 DEF RcmTypeOK
    <3>4. worker' \in [Workers -> WorkerStates]
      BY <1>0, <2>2, <3>2 DEF RcmTypeOK, WorkerStates
    <3> QED
      BY <1>2, <3>3, <3>4 DEF WorkerTakes, RcmTypeOK
  <2> QED
    BY <1>2, <2>1, <2>2 DEF WorkerTakes
<1>3. CASE WorkerAnswers(w)
  <2>1. last' \in [Jobs -> Nat]
    BY <1>0, <1>3 DEF WorkerAnswers, RcmTypeOK, WorkerStates, RcmMsg
  <2> QED
    BY <1>0, <1>3, <2>1, WorkerGotoType, ProcessType DEF WorkerAnswers, RcmTypeOK
<1>4. CASE WorkerCallsUnfound(w)
  BY <1>4, FaultType DEF WorkerCallsUnfound, CallsUnfound
<1>5. CASE WorkerQueuesNext(w)
  <2> DEFINE j == worker[w].msg.job
             q == jobs[j].que
             p == Head(q).pool
  <2>1. worker' \in [Workers -> WorkerStates]
    BY ZenonT(60), <1>0, <1>5, WorkerGotoType DEF WorkerQueuesNext
  <2>2. CASE UNCHANGED <<jobs, ready, sem>>
    BY ZenonT(60), <1>5, <2>1, <2>2 DEF WorkerQueuesNext, RcmTypeOK
  <2>3. CASE jobs' = [jobs EXCEPT ![j] = RunsEmpty(@)] /\ UNCHANGED <<ready, sem>>
    <3>1. jobs' \in [Jobs -> JobStates]
      BY <2>3 DEF RunsEmpty, JobStates, RcmTypeOK
    <3> QED
      BY ZenonT(60), <1>5, <2>1, <2>3, <3>1 DEF WorkerQueuesNext, RcmTypeOK
  <2>4. CASE /\ jobs[j].listed /\ q # <<>> /\ jobs' = [jobs EXCEPT ![j].que = Tail(q)]
             /\ ready' = [ready EXCEPT ![p] = Append(@, Head(q))]
             /\ sem' = [sem EXCEPT ![p] = @ + 1]
    <3>1. sem' \in [Pools -> Nat]
      <4>1. sem \in [Pools -> Nat]
        BY DEF RcmTypeOK
      <4>2. ASSUME NEW x PROVE [sem EXCEPT ![x] = sem[x] + 1] \in [Pools -> Nat]
        BY <4>1, CountAt
      <4>3. [sem EXCEPT ![p] = sem[p] + 1] \in [Pools -> Nat]
        BY <4>2
      <4> QED
        BY ZenonT(60), <2>4, <4>3
    <3>2. j \in Jobs
      <4>1. worker[w].pc = "next"
        BY ZenonT(60), <1>5 DEF WorkerQueuesNext, WorkerAt
      <4>2. j # 0 /\ j \in 0 .. MaxJobs
        BY <1>0, <4>1, CountAssumption DEF NextHasJob, InJob, WorkerStates, RcmMsg, Discrete
      <4> QED
        BY <4>2, CountAssumption DEF Jobs
    <3>3. q \in Queues
      BY <3>2 DEF RcmTypeOK, JobStates, Queues
    <3>4. Head(q) \in RcmMsg /\ Tail(q) \in Queues
      BY ZenonT(60), <2>4, <3>3, QueueParts
    <3>5. jobs' \in [Jobs -> JobStates]
      BY ZenonT(60), <2>4, <3>2, <3>4 DEF RcmTypeOK, JobStates, Queues
    <3>6. ready' \in [Pools -> Queues]
      <4>1. CASE p \in Pools
        <5>1. Append(ready[p], Head(q)) \in Queues
          BY <3>4, <4>1 DEF Queues, RcmTypeOK
        <5> QED
          BY ZenonT(60), <2>4, <4>1, <5>1 DEF RcmTypeOK
      <4>2. CASE p \notin Pools
        BY ZenonT(60), <2>4, <4>2 DEF RcmTypeOK
      <4> QED
        BY <4>1, <4>2
    <3> QED
      BY ZenonT(60), <1>5, <2>1, <3>1, <3>5, <3>6 DEF WorkerQueuesNext, RcmTypeOK
  <2> QED
    BY ZenonT(60), <1>5, <2>2, <2>3, <2>4 DEF WorkerQueuesNext
<1>6. CASE WorkerWalksDeletedList(w)
  BY <1>6, FaultType DEF WorkerWalksDeletedList
<1> QED
  BY <1>1, <1>2, <1>3, <1>4, <1>5, <1>6 DEF WorkerStep

\* Instance_finalize takes the first of the pools that are left: there is one.
LEMMA NextPoolIsLeft ==
  ASSUME RcmTypeOK, deleter.pools # {} PROVE NextPool \in deleter.pools
<1>1. deleter.pools \in SUBSET Nat
  BY CountAssumption DEF RcmTypeOK, DeleterStates
<1> QED
  BY <1>1, LeastExists DEF NextPool

\* Instance_finalize keeps the types.
LEMMA DeleterType == ASSUME RcmTypeOK, DeleterHasPool, DeleterStep PROVE RcmTypeOK'
<1>1. CASE DeletesJobs
  <2>1. CASE \E j \in Jobs : AnswerAll(jobs[j].que) /\ jobs' = [jobs EXCEPT ![j] = NoJob] /\ UNCHANGED deleter
    <3>1. PICK j \in Jobs : AnswerAll(jobs[j].que) /\ jobs' = [jobs EXCEPT ![j] = NoJob] /\ UNCHANGED deleter
      BY <2>1
    <3>2. answers' \in [Messages -> Int]
      <4>1. jobs[j].que \in Queues
        BY DEF RcmTypeOK, JobStates, Queues
      <4> QED
        BY <3>1, <4>1, AnswerAllType
    <3>3. jobs' \in [Jobs -> JobStates]
      BY <3>1 DEF RcmTypeOK, NoJob, JobStates
    <3> QED
      BY <1>1, <3>1, <3>2, <3>3 DEF DeletesJobs, RcmTypeOK
  <2>2. CASE DeleterGoto("pools") /\ UNCHANGED <<jobs, answers>>
    BY <1>1, <2>2, DeleterGotoType DEF DeletesJobs, RcmTypeOK
  <2> QED
    BY <1>1, <2>1, <2>2 DEF DeletesJobs
<1>2. CASE Terminates
  <2>1. worker' \in [Workers -> WorkerStates]
    BY <1>2 DEF Terminates, RcmTypeOK, WorkerStates
  <2>2. sem' \in [Pools -> Nat]
    <3>1. Posts(NextPool) \in Nat
      BY WorkersOfPool
    <3>2. CASE NextPool \in Pools
      BY <1>2, <3>1, <3>2 DEF Terminates, RcmTypeOK
    <3>3. CASE NextPool \notin Pools
      BY <1>2, <3>3 DEF Terminates, RcmTypeOK
    <3> QED
      BY <3>2, <3>3
  <2> QED
    BY <1>2, <2>1, <2>2, DeleterGotoType DEF Terminates, RcmTypeOK
<1>3. CASE DeletesPool
  <2>1. ready' \in [Pools -> Queues]
    <3>1. <<>> \in Queues
      BY DEF Queues
    <3> QED
      BY <1>3, <3>1 DEF DeletesPool, RcmTypeOK
  <2>2. deleter' \in DeleterStates
    BY <1>3 DEF DeletesPool, RcmTypeOK, DeleterStates
  <2>3. answers' \in [Messages -> Int]
    <3>1. NextPool \in Pools
      BY <1>3, NextPoolIsLeft DEF DeletesPool, DeleterHasPool, RcmTypeOK, DeleterStates
    <3>2. ready[NextPool] \in Queues
      BY <3>1 DEF RcmTypeOK
    <3> QED
      BY <1>3, <3>2, AnswerAllType DEF DeletesPool
  <2> QED
    BY <1>3, <2>1, <2>2, <2>3 DEF DeletesPool, RcmTypeOK
<1> QED
  BY <1>1, <1>2, <1>3 DEF DeleterStep

\* s is what is left of t when its first entries, or all, have been taken.
Rest(s, t) == \E d \in Nat : \A i \in DOMAIN s : i + d \in DOMAIN t /\ s[i] = t[i + d]

\* A step that hands no message over: what is left of the queues stays in order.
Loses ==
  /\ \A p \in Pools : Rest(ready'[p], ready[p])
  /\ \A j \in Jobs :
       /\ Rest(jobs'[j].que, jobs[j].que)
       /\ jobs'[j].listed /\ jobs'[j].empty => jobs[j].listed /\ jobs[j].empty
       /\ jobs'[j].listed => jobs[j].listed
  /\ \A w \in Workers :
       /\ worker'[w].msg = worker[w].msg
       /\ worker'[w].pc \in {"process", "next"} => worker'[w].pc = worker[w].pc
  /\ server'.msg = server.msg /\ (server'.pc = "have" => server.pc = "have")
  /\ UNCHANGED <<inbox, sent, lastJob, last>>

\* A queue is what is left of itself,
LEMMA RestSame == ASSUME NEW q \in Queues PROVE Rest(q, q)
<1>1. DOMAIN q = 1 .. Len(q) /\ Len(q) \in Nat
  BY DEF Queues
<1>2. \A i \in DOMAIN q : i + 0 \in DOMAIN q /\ q[i] = q[i + 0]
  BY <1>1
<1>3. 0 \in Nat
  OBVIOUS
<1> QED
  BY <1>2, <1>3 DEF Rest

\* an empty one is what is left of any,
LEMMA RestNone == ASSUME NEW q PROVE Rest(<<>>, q)
  BY DEF Rest

\* and so is a queue without its first message.
LEMMA RestTail == ASSUME NEW q \in Queues, q # <<>> PROVE Rest(Tail(q), q)
<1>1. \A i \in DOMAIN Tail(q) : i + 1 \in DOMAIN q /\ Tail(q)[i] = q[i + 1]
  BY QueueParts
<1> QED
  BY <1>1 DEF Rest

\* In a queue that is ordered by f, what is left is.
LEMMA LosesOrder ==
  ASSUME RcmTypeOK, RcmTypeOK', RcmInv, Loses
  PROVE  RcmInv'
<1> USE DEF Loses
<1>q. ASSUME NEW p \in Pools
      PROVE  \E d \in Nat : \A i \in DOMAIN ready'[p] : i + d \in DOMAIN ready[p] /\ ready'[p][i] = ready[p][i + d]
  BY DEF Rest
<1>j. ASSUME NEW j \in Jobs
      PROVE  \E d \in Nat : \A i \in DOMAIN jobs'[j].que : i + d \in DOMAIN jobs[j].que /\ jobs'[j].que[i] = jobs[j].que[i + d]
  BY DEF Rest
<1>e. /\ server.msg.id \in Nat /\ server'.msg.id = server.msg.id
      /\ \A j \in Jobs : last[j] \in Nat /\ last'[j] = last[j]
  BY DEF RcmTypeOK, ServerStates, RcmMsg
<1>f. ASSUME NEW n \in Nat, Earlier(n) PROVE Earlier(n)'
  BY <1>e, <1>f DEF Earlier
<1>m. /\ \A p \in Pools : \A i \in DOMAIN ready[p] : ready[p][i] \in RcmMsg
      /\ \A j \in Jobs : \A i \in DOMAIN jobs[j].que : jobs[j].que[i] \in RcmMsg
      /\ \A w \in Workers : worker[w].msg \in RcmMsg
  BY DEF RcmTypeOK, Queues, JobStates, WorkerStates
<1>t. ASSUME NEW m \in RcmMsg, InJob(m), ItsTurn(m) PROVE ItsTurn(m)'
  <2>1. m.job \in Jobs /\ m.id \in Nat
    BY <1>t, CountAssumption DEF InJob, RcmMsg, Jobs, Discrete
  <2>2. Earlier(m.id)' /\ last'[m.job] < m.id
    BY <1>t, <2>1, <1>f DEF ItsTurn
  <2>3. \A k \in DOMAIN jobs'[m.job].que : m.id < jobs'[m.job].que[k].id
    BY <1>t, <2>1, <1>j DEF ItsTurn
  <2> QED
    BY <2>2, <2>3 DEF ItsTurn
<1>1. InboxOrdered'
  BY DEF RcmInv, InboxOrdered
<1>2. QueOrdered'
  <2> SUFFICES ASSUME NEW j \in Jobs
               PROVE  /\ Earlier(last[j])'
                      /\ \A i \in DOMAIN jobs'[j].que :
                           /\ jobs'[j].que[i].job = j /\ Earlier(jobs[j].que[i].id)' /\ last'[j] < jobs'[j].que[i].id
                           /\ \A k \in DOMAIN jobs'[j].que : i < k => jobs'[j].que[i].id < jobs'[j].que[k].id
    BY DEF QueOrdered
  <2>1. PICK d \in Nat : \A i \in DOMAIN jobs'[j].que : i + d \in DOMAIN jobs[j].que /\ jobs'[j].que[i] = jobs[j].que[i + d]
    BY <1>j
  <2>2. Earlier(last[j])'
    BY <1>e, <1>f DEF RcmInv, QueOrdered
  <2>3. DOMAIN jobs'[j].que \subseteq Nat
    BY DEF RcmTypeOK, JobStates
  <2>4. ASSUME NEW i \in DOMAIN jobs'[j].que
        PROVE  /\ jobs'[j].que[i].job = j /\ Earlier(jobs[j].que[i].id)' /\ last'[j] < jobs'[j].que[i].id
               /\ \A k \in DOMAIN jobs'[j].que : i < k => jobs'[j].que[i].id < jobs'[j].que[k].id
    <3>1. i + d \in DOMAIN jobs[j].que /\ jobs'[j].que[i] = jobs[j].que[i + d] /\ jobs[j].que[i + d].id \in Nat
      BY <2>1, <1>m DEF RcmMsg
    <3>2. jobs'[j].que[i].job = j /\ last'[j] < jobs'[j].que[i].id /\ Earlier(jobs[j].que[i + d].id)
      BY <3>1, <1>e DEF RcmInv, QueOrdered
    <3>3. Earlier(jobs[j].que[i].id)'
      BY <3>1, <3>2, <1>f
    <3>4. ASSUME NEW k \in DOMAIN jobs'[j].que, i < k PROVE jobs'[j].que[i].id < jobs'[j].que[k].id
      <4>1. k + d \in DOMAIN jobs[j].que /\ jobs'[j].que[k] = jobs[j].que[k + d] /\ i + d < k + d
        BY <2>1, <2>3, <3>4
      <4> QED
        BY <3>1, <4>1 DEF RcmInv, QueOrdered
    <3> QED
      BY <3>2, <3>3, <3>4
  <2> QED
    BY <2>2, <2>4
<1>3. ReadyOrdered'
  <2> SUFFICES ASSUME NEW p \in Pools, NEW i \in DOMAIN ready'[p], InJob(ready'[p][i])
               PROVE  ItsTurn(ready[p][i])'
    BY DEF ReadyOrdered, InJob
  <2>1. PICK d \in Nat : i + d \in DOMAIN ready[p] /\ ready'[p][i] = ready[p][i + d]
    BY <1>q
  <2>2. ready[p][i + d] \in RcmMsg /\ ItsTurn(ready[p][i + d])
    BY <2>1, <1>m DEF RcmInv, ReadyOrdered
  <2> QED
    BY <2>1, <2>2, <1>t
<1>4. WorkersOrdered'
  <2> SUFFICES ASSUME NEW w \in Workers, worker'[w].pc = "process", InJob(worker'[w].msg)
               PROVE  ItsTurn(worker[w].msg)'
    BY DEF WorkersOrdered, InJob
  <2>1. worker'[w].msg = worker[w].msg /\ worker[w].pc = "process"
    OBVIOUS
  <2> QED
    BY <2>1, <1>m, <1>t DEF RcmInv, WorkersOrdered
<1>5. ReadyDistinct'
  <2> SUFFICES ASSUME NEW p \in Pools, NEW q \in Pools, NEW i \in DOMAIN ready'[p], NEW k \in DOMAIN ready'[q],
                      InJob(ready'[p][i]), ready'[p][i].job = ready'[q][k].job
               PROVE  p = q /\ i = k
    BY DEF ReadyDistinct, InJob
  <2>1. PICK d \in Nat : \A x \in DOMAIN ready'[p] : x + d \in DOMAIN ready[p] /\ ready'[p][x] = ready[p][x + d]
    BY <1>q
  <2>2. PICK e \in Nat : \A x \in DOMAIN ready'[q] : x + e \in DOMAIN ready[q] /\ ready'[q][x] = ready[q][x + e]
    BY <1>q
  <2>3. p = q
    BY <2>1, <2>2 DEF RcmInv, ReadyDistinct
  <2>4. i + d \in DOMAIN ready[p] /\ k + d \in DOMAIN ready[p] /\ i + d = k + d
    BY <2>1, <2>3 DEF RcmInv, ReadyDistinct
  <2>5. i \in Nat /\ k \in Nat
    BY DEF RcmTypeOK, Queues
  <2> QED
    BY <2>3, <2>4, <2>5
<1>6. ReadyNotHeld'
  BY <1>q DEF RcmInv, ReadyNotHeld, Holds, InJob
<1>7. HeldDistinct'
  BY DEF RcmInv, HeldDistinct, Holds, InJob
<1>8. EmptyIsIdle'
  BY <1>q, <1>j DEF RcmInv, EmptyIsIdle, Holds
<1>9. JobsKnown'
  BY <1>q DEF RcmInv, JobsKnown
<1> QED
  BY <1>1, <1>2, <1>3, <1>4, <1>5, <1>6, <1>7, <1>8, <1>9 DEF RcmInv

\* The workers take nothing and finish nothing.
WorkersKeep ==
  \A w \in Workers :
    /\ worker'[w].msg = worker[w].msg
    /\ worker'[w].pc \in {"process", "next"} => worker'[w].pc = worker[w].pc
ServerKeeps == server'.msg = server.msg /\ (server'.pc = "have" => server.pc = "have")
KeepQueues  == UNCHANGED <<inbox, sent, jobs, lastJob, ready, last>>

\* A step that leaves the queues alone is one,
LEMMA QuietLoses ==
  ASSUME RcmTypeOK, WorkersKeep, ServerKeeps, KeepQueues PROVE Loses
<1>1. ASSUME NEW p \in Pools PROVE Rest(ready'[p], ready[p])
  BY RestSame DEF KeepQueues, RcmTypeOK
<1>2. ASSUME NEW j \in Jobs PROVE Rest(jobs'[j].que, jobs[j].que)
  BY RestSame DEF KeepQueues, RcmTypeOK, JobStates, Queues
<1> QED
  BY <1>1, <1>2 DEF Loses, WorkersKeep, ServerKeeps, KeepQueues

\* as is one by which a thread goes on without a message,
LEMMA GotoKeeps ==
  ASSUME RcmTypeOK
  PROVE  /\ \A place : ServerGoto(place) /\ place # "have" => ServerKeeps
         /\ \A w, place : WorkerGoto(w, place) /\ place \notin {"process", "next"} => WorkersKeep
         /\ UNCHANGED server => ServerKeeps
         /\ UNCHANGED worker => WorkersKeep
<1>1. ASSUME NEW place, ServerGoto(place), place # "have" PROVE ServerKeeps
  BY <1>1 DEF ServerGoto, ServerKeeps, RcmTypeOK, ServerStates
<1>2. ASSUME NEW w, NEW place, WorkerGoto(w, place), place \notin {"process", "next"} PROVE WorkersKeep
  <2>1. ASSUME NEW v \in Workers
        PROVE  worker'[v].msg = worker[v].msg /\ (worker'[v].pc = worker[v].pc \/ worker'[v].pc = place)
    BY <1>2 DEF WorkerGoto, RcmTypeOK, WorkerStates
  <2> QED
    BY <1>2, <2>1 DEF WorkersKeep
<1> QED
  BY <1>1, <1>2 DEF ServerKeeps, WorkersKeep

\* a fault,
LEMMA FaultQuiet == ASSUME RcmTypeOK, Fault PROVE Loses
<1>1. WorkersKeep /\ ServerKeeps /\ KeepQueues
  BY DEF Fault, WorkersKeep, ServerKeeps, KeepQueues
<1> QED
  BY <1>1, QuietLoses

\* and a step of Instance_init_P.
LEMMA CreatorLoses == ASSUME RcmTypeOK, CreatorStep PROVE Loses
<1>1. CASE Fault
  BY <1>1, FaultQuiet
<1>2. CASE \E place \in {"table", "pools", "workers", "run"} :
             ServerGoto(place) /\ UNCHANGED <<inbox, sent, jobs, lastJob, ready, sem, worker, deleter, answers, last, fault>>
  <2>1. WorkersKeep /\ ServerKeeps /\ KeepQueues
    BY <1>2, GotoKeeps DEF KeepQueues
  <2> QED
    BY <2>1, QuietLoses
<1>3. CASE \E pools \in {{}, Pools} :
             Undo(pools) /\ UNCHANGED <<inbox, sent, jobs, lastJob, ready, sem, answers, last, fault>>
  <2>1. ServerKeeps
    BY <1>3 DEF Undo, ServerKeeps, RcmTypeOK, ServerStates
  <2>2. WorkersKeep /\ KeepQueues
    BY <1>3, GotoKeeps DEF Undo, KeepQueues
  <2> QED
    BY <2>1, <2>2, QuietLoses
<1>4. CASE \E w \in Workers : WorkerGoto(w, "pend") /\ UNCHANGED <<server, deleter>>
             /\ UNCHANGED <<inbox, sent, jobs, lastJob, ready, sem, answers, last, fault>>
  <2>1. WorkersKeep /\ ServerKeeps /\ KeepQueues
    BY <1>4, GotoKeeps DEF KeepQueues
  <2> QED
    BY <2>1, QuietLoses
<1> QED
  BY <1>1, <1>2, <1>3, <1>4 DEF CreatorStep, InitList, InitTable, InitPools, InitWorker, InitServer

\* What is in the queues, with the server and with the workers are messages.
LEMMA MessageTypes ==
  ASSUME RcmTypeOK
  PROVE  /\ server.msg \in RcmMsg /\ \A i \in DOMAIN inbox : inbox[i] \in RcmMsg
         /\ \A p \in Pools : \A i \in DOMAIN ready[p] : ready[p][i] \in RcmMsg
         /\ \A j \in Jobs : \A i \in DOMAIN jobs[j].que : jobs[j].que[i] \in RcmMsg
         /\ \A w \in Workers : worker[w].msg \in RcmMsg
         /\ \A j \in Jobs : last[j] \in Nat
  BY DEF RcmTypeOK, Queues, ServerStates, JobStates, WorkerStates

\* A message has an id, and its job is one of the jobs or none.
LEMMA RcmMsgParts ==
  ASSUME NEW m \in RcmMsg
  PROVE  m.id \in Nat /\ m.job \in Nat /\ (InJob(m) => m.job \in Jobs)
  BY CountAssumption DEF RcmMsg, InJob, Jobs, Discrete

\* A message is sent: it is the newest.
LEMMA SendOrder ==
  ASSUME RcmTypeOK, RcmInv, NEW m \in Calls \cup Acquires \cup Releases, Send(m)
  PROVE  RcmInv'
<1> DEFINE new == [id |-> sent + 1, kind |-> m.kind, pool |-> m.pool, job |-> m.job]
<1>1. /\ inbox' = Append(inbox, new) /\ sent' = sent + 1 /\ sent \in Nat
      /\ UNCHANGED <<server, jobs, lastJob, ready, worker, last>>
  BY DEF Send, RcmTypeOK
<1>2. m.job \in 0 .. lastJob
  <2>1. lastJob \in Nat
    BY CountAssumption DEF RcmTypeOK
  <2>2. CASE \/ m \in [kind : {"call"}, pool : Pools \cup {Default, -1}, job : {Discrete}]
           \/ m \in [kind : {"other"}, pool : Pools \cup {Default}, job : {Discrete}]
    BY <2>1, <2>2 DEF Discrete
  <2>3. CASE m \in [kind : {"call"}, pool : Pools, job : 1 .. lastJob]
    <3>1. m.job \in 1 .. lastJob
      BY <2>3
    <3> QED
      BY <2>1, <3>1
  <2>4. CASE m \in Acquires
    BY <2>1, <2>4 DEF Acquires, Discrete
  <2>5. CASE m \in Releases
    BY <2>1, <2>5 DEF Releases
  <2> QED
    BY <2>2, <2>3, <2>4, <2>5 DEF Calls
<1>3. /\ Len(inbox) \in Nat /\ DOMAIN inbox = 1 .. Len(inbox)
      /\ DOMAIN inbox' = 1 .. Len(inbox) + 1
      /\ inbox'[Len(inbox) + 1] = new /\ \A i \in DOMAIN inbox : inbox'[i] = inbox[i]
  <2>1. m.kind \in {"call", "other", "acquire", "release"} /\ m.pool \in Int /\ m.job \in 0 .. MaxJobs
    BY SendParts
  <2>2. new \in RcmMsg
    BY <1>1, <2>1 DEF RcmMsg
  <2> QED
    BY <1>1, <2>2, QueueGrows DEF RcmTypeOK
<1>a. \A i \in DOMAIN inbox : inbox[i].id \in Nat
  BY MessageTypes, RcmMsgParts
<1>4. new.id = sent + 1 /\ new.job = m.job
  OBVIOUS
<1>5. server.msg.id \in Nat
  BY MessageTypes, RcmMsgParts
<1> HIDE DEF new
<1>6. InboxOrdered'
  <2>1. server.msg.id <= sent /\ \A i \in DOMAIN inbox : server.msg.id < inbox[i].id /\ inbox[i].id <= sent
    BY DEF RcmInv, InboxOrdered
  <2>2. \A i, k \in DOMAIN inbox : i < k => inbox[i].id < inbox[k].id
    BY DEF RcmInv, InboxOrdered
  <2>3. server'.msg.id <= sent' /\ \A i \in DOMAIN inbox' : server'.msg.id < inbox'[i].id /\ inbox'[i].id <= sent'
    BY <1>1, <1>3, <1>a, <1>4, <1>5, <2>1
  <2>4. \A i, k \in DOMAIN inbox' : i < k => inbox'[i].id < inbox'[k].id
    BY <1>1, <1>3, <1>a, <1>4, <2>1, <2>2
  <2> QED
    BY <2>3, <2>4 DEF InboxOrdered
<1>7. JobsKnown'
  <2>1. \A i \in DOMAIN inbox' : inbox'[i].job <= lastJob
    <3>1. \A i \in DOMAIN inbox : inbox[i].job <= lastJob
      BY DEF RcmInv, JobsKnown
    <3>2. lastJob \in Nat /\ new.job <= lastJob
      BY <1>2, <1>4, CountAssumption DEF RcmTypeOK
    <3> QED
      BY <1>3, <3>1, <3>2
  <2> QED
    BY <1>1, <2>1 DEF RcmInv, JobsKnown
<1>8. QueOrdered' /\ EmptyIsIdle'
  BY <1>1 DEF RcmInv, QueOrdered, Earlier, EmptyIsIdle, Holds
<1>9. ReadyOrdered' /\ WorkersOrdered'
  <2>1. ReadyOrdered'
    BY <1>1 DEF RcmInv, ReadyOrdered, ItsTurn, Earlier, InJob
  <2>2. WorkersOrdered'
    BY <1>1 DEF RcmInv, WorkersOrdered, ItsTurn, Earlier, InJob
  <2> QED
    BY <2>1, <2>2
<1>10. ReadyDistinct' /\ ReadyNotHeld' /\ HeldDistinct'
  BY <1>1 DEF RcmInv, ReadyDistinct, ReadyNotHeld, HeldDistinct, Holds, InJob
<1> QED
  BY <1>6, <1>7, <1>8, <1>9, <1>10 DEF RcmInv

\* The server takes the oldest message of its queue, which is newer than all it had.
LEMMA GetsOrder ==
  ASSUME RcmTypeOK, RcmInv, ServerGets
  PROVE  RcmInv'
<1>0. UNCHANGED <<sent, jobs, lastJob, ready, last, worker>> /\ server.pc = "get"
  BY DEF ServerGets, ServerAt
<1>1. CASE inbox = <<>>
  <2>1. WorkersKeep /\ ServerKeeps /\ KeepQueues
    BY <1>0, <1>1, GotoKeeps DEF ServerGets, KeepQueues
  <2>2. RcmTypeOK'
    BY ServerType DEF ServerStep
  <2> QED
    BY <2>1, <2>2, QuietLoses, LosesOrder
<1>2. CASE inbox # <<>>
  <2>1. /\ Len(inbox) \in Nat \ {0} /\ DOMAIN inbox = 1 .. Len(inbox)
        /\ DOMAIN inbox' = 1 .. Len(inbox) - 1 /\ \A i \in DOMAIN inbox' : inbox'[i] = inbox[i + 1]
        /\ server'.pc = "have" /\ server'.msg = inbox[1]
    BY <1>2 DEF ServerGets, RcmTypeOK, Queues
  <2>2. /\ server.msg.id \in Nat /\ \A i \in DOMAIN inbox : inbox[i].id \in Nat
        /\ \A j \in Jobs : last[j] \in Nat
        /\ \A p \in Pools : \A i \in DOMAIN ready[p] : ready[p][i] \in RcmMsg
        /\ \A j \in Jobs : \A i \in DOMAIN jobs[j].que : jobs[j].que[i] \in RcmMsg
        /\ \A w \in Workers : worker[w].msg \in RcmMsg
    BY MessageTypes, RcmMsgParts
  <2>3. 1 \in DOMAIN inbox /\ server.msg.id < inbox[1].id
    BY <2>1 DEF RcmInv, InboxOrdered
  <2>4. ASSUME NEW n \in Nat, Earlier(n) PROVE Earlier(n)'
    BY <1>0, <2>1, <2>2, <2>3, <2>4 DEF Earlier
  <2>5. ASSUME NEW m \in RcmMsg, InJob(m), ItsTurn(m) PROVE ItsTurn(m)'
    <3>1. m.id \in Nat
      BY DEF RcmMsg
    <3> QED
      BY <1>0, <2>4, <2>5, <3>1 DEF ItsTurn
  <2>6. InboxOrdered'
    <3>1. \A i \in DOMAIN inbox' : server'.msg.id < inbox'[i].id /\ inbox'[i].id <= sent
      BY <2>1, <2>2 DEF RcmInv, InboxOrdered
    <3>2. ASSUME NEW i \in DOMAIN inbox', NEW k \in DOMAIN inbox', i < k PROVE inbox'[i].id < inbox'[k].id
      <4>1. i + 1 \in DOMAIN inbox /\ k + 1 \in DOMAIN inbox /\ i + 1 < k + 1
        BY <2>1, <3>2
      <4> QED
        BY <2>1, <4>1 DEF RcmInv, InboxOrdered
    <3> QED
      BY <1>0, <2>1, <2>3, <3>1, <3>2 DEF RcmInv, InboxOrdered
  <2>7. QueOrdered'
    <3>1. \A j \in Jobs : \A i \in DOMAIN jobs[j].que : jobs[j].que[i].id \in Nat
      BY <2>2 DEF RcmMsg
    <3> QED
      BY <1>0, <2>2, <2>4, <3>1 DEF RcmInv, QueOrdered
  <2>8. ReadyOrdered'
    BY <1>0, <2>2, <2>5 DEF RcmInv, ReadyOrdered, InJob
  <2>9. WorkersOrdered'
    BY <1>0, <2>2, <2>5 DEF RcmInv, WorkersOrdered, InJob
  <2>10. ReadyDistinct' /\ ReadyNotHeld' /\ HeldDistinct' /\ EmptyIsIdle'
    BY <1>0 DEF RcmInv, ReadyDistinct, ReadyNotHeld, HeldDistinct, EmptyIsIdle, Holds, InJob
  <2>11. JobsKnown'
    BY <1>0, <2>1, <2>3 DEF RcmInv, JobsKnown
  <2> QED
    BY <2>6, <2>7, <2>8, <2>9, <2>10, <2>11 DEF RcmInv
<1> QED
  BY <1>1, <1>2

\* A new job has no message anywhere.
LEMMA AcquiresOrder ==
  ASSUME RcmTypeOK, RcmInv, ServerAcquires
  PROVE  RcmInv'
<1>0. RcmTypeOK' /\ ServerKeeps /\ UNCHANGED <<inbox, sent, ready, worker, last>>
  <2>1. GoOn # "have"
    BY DEF GoOn
  <2> QED
    BY <2>1, ServerType, GotoKeeps DEF ServerAcquires, ServerStep
<1>1. CASE ~(lastJob < MaxJobs)
  <2>1. WorkersKeep /\ KeepQueues
    BY <1>0, <1>1, GotoKeeps DEF ServerAcquires, KeepQueues
  <2> QED
    BY <1>0, <2>1, QuietLoses, LosesOrder
<1>2. CASE lastJob < MaxJobs
  <2>1. /\ lastJob' = lastJob + 1 /\ lastJob \in Nat /\ lastJob' \in Jobs
        /\ jobs' = [jobs EXCEPT ![lastJob'] = [NoJob EXCEPT !.listed = TRUE]]
    BY <1>2, CountAssumption DEF ServerAcquires, RcmTypeOK, Jobs
  <2>2. /\ DOMAIN jobs'[lastJob'].que = {}
        /\ \A j \in Jobs : j # lastJob' => jobs'[j] = jobs[j]
    <3>1. [NoJob EXCEPT !.listed = TRUE].que = <<>> /\ DOMAIN <<>> = {}
      BY DEF NoJob
    <3> QED
      BY <2>1, <3>1 DEF RcmTypeOK
  <2>3. /\ server.msg.id \in Nat /\ server'.msg.id = server.msg.id
        /\ \A j \in Jobs : last[j] \in Nat
        /\ \A p \in Pools : \A i \in DOMAIN ready[p] : ready[p][i] \in RcmMsg
        /\ \A j \in Jobs : \A i \in DOMAIN jobs[j].que : jobs[j].que[i] \in RcmMsg
        /\ \A w \in Workers : worker[w].msg \in RcmMsg
    BY <1>0, MessageTypes, RcmMsgParts DEF ServerKeeps
  <2>4. ASSUME NEW n \in Nat, Earlier(n) PROVE Earlier(n)'
    BY <1>0, <2>3, <2>4 DEF Earlier, ServerKeeps
  <2>5. ASSUME NEW m \in RcmMsg, InJob(m), ItsTurn(m), m.job <= lastJob PROVE ItsTurn(m)'
    <3>1. m.id \in Nat /\ m.job \in Nat /\ m.job # lastJob' /\ m.job \in Jobs
      BY <2>1, <2>5, CountAssumption DEF RcmMsg, InJob, Jobs, Discrete
    <3>2. jobs'[m.job] = jobs[m.job]
      BY <2>2, <3>1
    <3> QED
      BY <1>0, <2>4, <2>5, <3>1, <3>2 DEF ItsTurn
  <2>6. InboxOrdered'
    BY <1>0, <2>3 DEF RcmInv, InboxOrdered
  <2>7. QueOrdered'
    <3>1. \A j \in Jobs : \A i \in DOMAIN jobs[j].que : jobs[j].que[i].id \in Nat
      BY <2>3 DEF RcmMsg
    <3>2. ASSUME NEW j \in Jobs PROVE Earlier(last[j])'
      BY <1>0, <2>3, <2>4 DEF RcmInv, QueOrdered
    <3>3. ASSUME NEW j \in Jobs, j # lastJob', NEW i \in DOMAIN jobs'[j].que
          PROVE  /\ jobs'[j].que[i].job = j /\ Earlier(jobs[j].que[i].id)' /\ last'[j] < jobs'[j].que[i].id
                 /\ \A k \in DOMAIN jobs'[j].que : i < k => jobs'[j].que[i].id < jobs'[j].que[k].id
      <4>1. jobs'[j] = jobs[j] /\ i \in DOMAIN jobs[j].que
        BY <2>2, <3>3
      <4>2. Earlier(jobs[j].que[i].id)'
        BY <2>4, <3>1, <4>1 DEF RcmInv, QueOrdered
      <4> QED
        BY <1>0, <4>1, <4>2 DEF RcmInv, QueOrdered
    <3> QED
      BY <2>2, <3>2, <3>3 DEF QueOrdered
  <2>8. ReadyOrdered'
    BY <1>0, <2>3, <2>5 DEF RcmInv, ReadyOrdered, InJob, JobsKnown
  <2>9. WorkersOrdered'
    BY <1>0, <2>3, <2>5 DEF RcmInv, WorkersOrdered, InJob, JobsKnown
  <2>10. ReadyDistinct' /\ ReadyNotHeld' /\ HeldDistinct'
    BY <1>0 DEF RcmInv, ReadyDistinct, ReadyNotHeld, HeldDistinct, Holds, InJob
  <2>11. EmptyIsIdle'
    <3>1. ASSUME NEW j \in Jobs, j # lastJob', jobs'[j].listed, jobs'[j].empty
          PROVE  /\ DOMAIN jobs'[j].que = {}
                 /\ \A p \in Pools : \A i \in DOMAIN ready[p] : ready[p][i].job # j
                 /\ \A w \in Workers : Holds(w) => worker[w].msg.job # j
      BY <2>2, <3>1 DEF RcmInv, EmptyIsIdle
    <3>2. /\ \A p \in Pools : \A i \in DOMAIN ready[p] : ready[p][i].job # lastJob'
          /\ \A w \in Workers : worker[w].msg.job # lastJob'
      BY <2>1, <2>3, CountAssumption DEF RcmInv, JobsKnown, RcmMsg
    <3> QED
      BY <1>0, <2>2, <3>1, <3>2 DEF EmptyIsIdle, Holds
  <2>12. JobsKnown'
    <3>1. \A j \in Jobs : j > lastJob' => ~jobs'[j].listed
      BY <2>1, <2>2, CountAssumption DEF RcmInv, JobsKnown, Jobs
    <3>2. /\ \A i \in DOMAIN inbox : inbox[i].job \in Nat
          /\ server.msg.job \in Nat /\ server'.msg = server.msg
          /\ \A p \in Pools : \A i \in DOMAIN ready[p] : ready[p][i].job \in Nat
          /\ \A w \in Workers : worker[w].msg.job \in Nat
      BY <1>0, MessageTypes, RcmMsgParts DEF ServerKeeps
    <3> QED
      BY <1>0, <2>1, <3>1, <3>2 DEF RcmInv, JobsKnown
  <2> QED
    BY <2>6, <2>7, <2>8, <2>9, <2>10, <2>11, <2>12 DEF RcmInv
<1> QED
  BY <1>1, <1>2

\* The server thread has no message after GoOn.
LEMMA GoOnIsNotHave == GoOn # "have"
  BY DEF GoOn

\* The steps of the server that hand nothing over.
LEMMA ServerLoses ==
  ASSUME RcmTypeOK,
         ServerCalls \/ ServerCallsUnfound \/ ServerReleases \/ ServerReturns \/ ServerPosts \/ ServerRefuses
  PROVE  Loses
<1>1. CASE ServerCalls \/ ServerPosts \/ ServerRefuses
  <2>1. WorkersKeep /\ ServerKeeps /\ KeepQueues
    BY <1>1, GotoKeeps, GoOnIsNotHave DEF ServerCalls, ServerPosts, ServerRefuses, KeepQueues
  <2> QED
    BY <2>1, QuietLoses
<1>2. CASE ServerCallsUnfound
  BY <1>2, FaultQuiet DEF ServerCallsUnfound, CallsUnfound
<1>3. CASE ServerReleases
  <2>1. WorkersKeep /\ ServerKeeps /\ UNCHANGED <<inbox, sent, lastJob, ready, last>>
    BY <1>3, GotoKeeps, GoOnIsNotHave DEF ServerReleases
  <2>2. CASE UNCHANGED jobs
    BY <2>1, <2>2, QuietLoses DEF KeepQueues
  <2>3. CASE jobs' = [jobs EXCEPT ![Msg.job].listed = FALSE]
    <3>1. ASSUME NEW j \in Jobs
          PROVE  /\ jobs'[j].que = jobs[j].que /\ jobs'[j].empty = jobs[j].empty
                 /\ jobs'[j].listed => jobs[j].listed
      BY <2>3 DEF RcmTypeOK, JobStates
    <3>2. ASSUME NEW j \in Jobs PROVE Rest(jobs'[j].que, jobs[j].que)
      BY <3>1, RestSame DEF RcmTypeOK, JobStates, Queues
    <3>3. ASSUME NEW p \in Pools PROVE Rest(ready'[p], ready[p])
      BY <2>1, RestSame DEF RcmTypeOK
    <3> QED
      BY <2>1, <3>1, <3>2, <3>3 DEF Loses, WorkersKeep, ServerKeeps
  <2> QED
    BY <1>3, <2>2, <2>3 DEF ServerReleases
<1>4. CASE ServerReturns
  <2>1. WorkersKeep /\ ServerKeeps /\ UNCHANGED <<inbox, sent, lastJob, ready, last>>
    BY <1>4, GotoKeeps, GoOnIsNotHave DEF ServerReturns
  <2>2. CASE UNCHANGED jobs
    BY <2>1, <2>2, QuietLoses DEF KeepQueues
  <2>3. CASE jobs[Msg.job].que # <<>> /\ jobs' = [jobs EXCEPT ![Msg.job].que = Tail(jobs[Msg.job].que)]
    <3>1. ASSUME NEW j \in Jobs
          PROVE  /\ jobs'[j].que = jobs[j].que \/ (jobs[j].que # <<>> /\ jobs'[j].que = Tail(jobs[j].que))
                 /\ jobs'[j].empty = jobs[j].empty /\ jobs'[j].listed = jobs[j].listed
      BY <2>3 DEF RcmTypeOK, JobStates
    <3>2. ASSUME NEW j \in Jobs PROVE Rest(jobs'[j].que, jobs[j].que)
      <4>1. jobs[j].que \in Queues
        BY DEF RcmTypeOK, JobStates, Queues
      <4> QED
        BY <3>1, <4>1, RestSame, RestTail
    <3>3. ASSUME NEW p \in Pools PROVE Rest(ready'[p], ready[p])
      BY <2>1, RestSame DEF RcmTypeOK
    <3> QED
      BY <2>1, <3>1, <3>2, <3>3 DEF Loses, WorkersKeep, ServerKeeps
  <2> QED
    BY <1>4, <2>2, <2>3 DEF ServerReturns
<1> QED
  BY <1>1, <1>2, <1>3, <1>4

\* Instance_finalize hands nothing over.
LEMMA DeleterLoses == ASSUME RcmTypeOK, DeleterStep PROVE Loses
<1>1. CASE DeletesJobs
  <2>1. WorkersKeep /\ ServerKeeps /\ UNCHANGED <<inbox, sent, lastJob, ready, last>>
    BY <1>1, GotoKeeps DEF DeletesJobs
  <2>2. CASE UNCHANGED jobs
    BY <2>1, <2>2, QuietLoses DEF KeepQueues
  <2>3. CASE \E j \in Jobs : jobs' = [jobs EXCEPT ![j] = NoJob]
    <3>1. ASSUME NEW j \in Jobs
          PROVE  jobs'[j] = jobs[j] \/ (jobs'[j].que = <<>> /\ ~jobs'[j].listed)
      BY <2>3 DEF RcmTypeOK, NoJob
    <3>2. ASSUME NEW j \in Jobs PROVE Rest(jobs'[j].que, jobs[j].que)
      <4>1. jobs[j].que \in Queues
        BY DEF RcmTypeOK, JobStates, Queues
      <4> QED
        BY <3>1, <4>1, RestSame, RestNone
    <3>3. ASSUME NEW p \in Pools PROVE Rest(ready'[p], ready[p])
      BY <2>1, RestSame DEF RcmTypeOK
    <3> QED
      BY <2>1, <3>1, <3>2, <3>3 DEF Loses, WorkersKeep, ServerKeeps
  <2> QED
    BY <1>1, <2>2, <2>3 DEF DeletesJobs
<1>2. CASE Terminates
  <2>1. ServerKeeps /\ KeepQueues
    BY <1>2, GotoKeeps DEF Terminates, KeepQueues
  <2>2. WorkersKeep
    BY <1>2 DEF Terminates, WorkersKeep, RcmTypeOK, WorkerStates
  <2> QED
    BY <2>1, <2>2, QuietLoses
<1>3. CASE DeletesPool
  <2>1. WorkersKeep /\ ServerKeeps /\ UNCHANGED <<inbox, sent, lastJob, jobs, last>>
    BY <1>3, GotoKeeps DEF DeletesPool
  <2>2. ASSUME NEW j \in Jobs PROVE Rest(jobs'[j].que, jobs[j].que)
    BY <2>1, RestSame DEF RcmTypeOK, JobStates, Queues
  <2>3. ASSUME NEW p \in Pools PROVE Rest(ready'[p], ready[p])
    <3>1. ready'[p] = ready[p] \/ ready'[p] = <<>>
      BY <1>3 DEF DeletesPool, RcmTypeOK
    <3>2. ready[p] \in Queues
      BY DEF RcmTypeOK
    <3> QED
      BY <3>1, <3>2, RestSame, RestNone
  <2> QED
    BY <2>1, <2>2, <2>3 DEF Loses, WorkersKeep, ServerKeeps
<1> QED
  BY <1>1, <1>2, <1>3 DEF DeleterStep

\* A pool's queue with a message more at its end.
LEMMA ReadyGrows ==
  ASSUME RcmTypeOK, NEW p \in Pools, NEW m \in RcmMsg, ready' = [ready EXCEPT ![p] = Append(@, m)]
  PROVE  /\ \A q \in Pools : \A i \in DOMAIN ready'[q] :
              \/ i \in DOMAIN ready[q] /\ ready'[q][i] = ready[q][i]
              \/ q = p /\ i = Len(ready[p]) + 1 /\ ready'[q][i] = m
         /\ ready' \in [Pools -> Queues]
<1>1. ready[p] \in Queues /\ \A q \in Pools : ready[q] \in Queues
  BY DEF RcmTypeOK
<1>2. ready'[p] = Append(ready[p], m) /\ \A q \in Pools : q # p => ready'[q] = ready[q]
  BY DEF RcmTypeOK
<1>3. /\ Append(ready[p], m) \in Queues
      /\ Len(ready[p]) \in Nat /\ DOMAIN ready[p] = 1 .. Len(ready[p])
      /\ DOMAIN Append(ready[p], m) = 1 .. Len(ready[p]) + 1
      /\ Append(ready[p], m)[Len(ready[p]) + 1] = m
      /\ \A i \in DOMAIN ready[p] : Append(ready[p], m)[i] = ready[p][i]
  BY <1>1, QueueGrows
<1>4. ASSUME NEW q \in Pools, NEW i \in DOMAIN ready'[q]
      PROVE  \/ i \in DOMAIN ready[q] /\ ready'[q][i] = ready[q][i]
             \/ q = p /\ i = Len(ready[p]) + 1 /\ ready'[q][i] = m
  <2>1. CASE q # p
    BY <1>2, <2>1
  <2>2. CASE q = p
    <3>1. i \in 1 .. Len(ready[p]) + 1
      BY <1>2, <1>3, <2>2
    <3>2. i = Len(ready[p]) + 1 \/ i \in DOMAIN ready[p]
      BY <1>3, <3>1
    <3> QED
      BY <1>2, <1>3, <2>2, <3>2
  <2> QED
    BY <2>1, <2>2
<1>5. ready' \in [Pools -> Queues]
  BY <1>3 DEF RcmTypeOK
<1> QED
  BY <1>4, <1>5

\* A message is handed to a pool: if it has a job, no other of the job is there or held.
HandsOver(p, m) ==
  /\ ready' = [ready EXCEPT ![p] = Append(@, m)]
  /\ \A w \in Workers : Holds(w)' => Holds(w) /\ worker'[w].msg = worker[w].msg
  /\ InJob(m) => /\ \A q \in Pools : \A i \in DOMAIN ready[q] : ready[q][i].job # m.job
                 /\ \A w \in Workers : Holds(w)' => worker[w].msg.job # m.job

\* Then a job has one message with the pools, as before.
LEMMA HandsOverOne ==
  ASSUME RcmTypeOK, RcmInv, NEW p \in Pools, NEW m \in RcmMsg, HandsOver(p, m)
  PROVE  ReadyDistinct' /\ ReadyNotHeld' /\ HeldDistinct'
<1>1. /\ \A q \in Pools : \A i \in DOMAIN ready'[q] :
           \/ i \in DOMAIN ready[q] /\ ready'[q][i] = ready[q][i]
           \/ q = p /\ i = Len(ready[p]) + 1 /\ ready'[q][i] = m
  BY ReadyGrows DEF HandsOver
<1>2. ReadyDistinct'
  <2> SUFFICES ASSUME NEW q \in Pools, NEW r \in Pools, NEW i \in DOMAIN ready'[q], NEW k \in DOMAIN ready'[r],
                      InJob(ready'[q][i]), ready'[q][i].job = ready'[r][k].job
               PROVE  q = r /\ i = k
    BY DEF ReadyDistinct, InJob
  <2>1. CASE i \in DOMAIN ready[q] /\ ready'[q][i] = ready[q][i]
    <3>1. CASE k \in DOMAIN ready[r] /\ ready'[r][k] = ready[r][k]
      BY <2>1, <3>1 DEF RcmInv, ReadyDistinct, InJob
    <3>2. CASE ready'[r][k] = m
      BY <2>1, <3>2 DEF HandsOver, InJob
    <3> QED
      BY <1>1, <3>1, <3>2
  <2>2. CASE q = p /\ i = Len(ready[p]) + 1 /\ ready'[q][i] = m
    <3>1. CASE k \in DOMAIN ready[r] /\ ready'[r][k] = ready[r][k]
      BY <2>2, <3>1 DEF HandsOver, InJob
    <3>2. CASE r = p /\ k = Len(ready[p]) + 1
      BY <2>2, <3>2
    <3> QED
      BY <1>1, <3>1, <3>2
  <2> QED
    BY <1>1, <2>1, <2>2
<1>3. ReadyNotHeld'
  <2> SUFFICES ASSUME NEW q \in Pools, NEW w \in Workers, NEW i \in DOMAIN ready'[q],
                      Holds(w)', InJob(ready'[q][i])
               PROVE  ready'[q][i].job # worker'[w].msg.job
    BY DEF ReadyNotHeld, InJob
  <2>1. Holds(w) /\ worker'[w].msg = worker[w].msg
    BY DEF HandsOver
  <2>2. CASE i \in DOMAIN ready[q] /\ ready'[q][i] = ready[q][i]
    BY <2>1, <2>2 DEF RcmInv, ReadyNotHeld
  <2>3. CASE ready'[q][i] = m
    BY <2>1, <2>3 DEF HandsOver
  <2> QED
    BY <1>1, <2>2, <2>3
<1>4. HeldDistinct'
  BY DEF HandsOver, RcmInv, HeldDistinct, InJob
<1> QED
  BY <1>2, <1>3, <1>4

\* The server hands the message it has to its pool, or to its job, where it is the last.
LEMMA DispatchesOrder ==
  ASSUME RcmTypeOK, RcmInv, ServerDispatches
  PROVE  RcmInv'
<1>0. /\ RcmTypeOK' /\ server.pc = "have" /\ server'.pc # "have" /\ server'.msg = server.msg
      /\ UNCHANGED <<inbox, sent, lastJob, worker, last>> /\ Known(Msg)
  <2>1. ServerGoto(GoOn) \/ ServerGoto("post")
    BY DEF ServerDispatches
  <2>2. server'.pc # "have" /\ server'.msg = server.msg
    BY <2>1, GoOnIsNotHave DEF ServerGoto, RcmTypeOK, ServerStates
  <2> QED
    BY <2>2, ServerType DEF ServerDispatches, ServerStep, ServerAt
<1>1. /\ Msg \in RcmMsg /\ Msg.id \in Nat /\ Msg.job \in Nat /\ (InJob(Msg) => Msg.job \in Jobs) /\ Msg = server.msg
  BY MessageTypes, RcmMsgParts DEF Msg
<1>2. ASSUME NEW n \in Nat, Earlier(n) PROVE Earlier(n)' /\ n < Msg.id
  BY <1>0, <1>1, <1>2 DEF Earlier
<1>6. ASSUME NEW n \in Nat, n <= Msg.id PROVE Earlier(n)'
  BY <1>0, <1>1, <1>6 DEF Earlier
<1>3. InboxOrdered' /\ JobsKnown'
  <2>1. InboxOrdered'
    BY <1>0 DEF RcmInv, InboxOrdered
  <2>2. \A j \in Jobs : jobs'[j].listed = jobs[j].listed
    <3>1. CASE jobs' = [jobs EXCEPT ![Msg.job].que = Append(@, Msg)]
      BY <3>1 DEF RcmTypeOK, JobStates
    <3>2. CASE jobs' = [j \in Jobs |-> IF j = Msg.job THEN [jobs[j] EXCEPT !.empty = FALSE] ELSE jobs[j]]
      BY <3>2 DEF RcmTypeOK, JobStates
    <3> QED
      BY <3>1, <3>2 DEF ServerDispatches
  <2>3. \A p \in Pools : \A i \in DOMAIN ready'[p] : ready'[p][i].job <= lastJob
    <3>1. CASE UNCHANGED ready
      BY <3>1 DEF RcmInv, JobsKnown
    <3>2. CASE ready' = [ready EXCEPT ![Msg.pool] = Append(@, Msg)]
      <4>1. Msg.pool \in Pools /\ Msg.job <= lastJob
        BY <1>0, <1>1 DEF Known, RcmInv, JobsKnown
      <4> QED
        BY <1>1, <3>2, <4>1, ReadyGrows DEF RcmInv, JobsKnown
    <3> QED
      BY <3>1, <3>2 DEF ServerDispatches
  <2> QED
    BY <1>0, <2>1, <2>2, <2>3 DEF RcmInv, JobsKnown
<1>4. CASE Waits(Msg)
  <2>1. /\ InJob(Msg) /\ Msg.job \in Jobs /\ ~jobs[Msg.job].empty /\ UNCHANGED ready
        /\ jobs' = [jobs EXCEPT ![Msg.job].que = Append(@, Msg)]
    BY <1>1, <1>4 DEF ServerDispatches, Waits, InJob
  <2>2. /\ \A j \in Jobs : j # Msg.job => jobs'[j] = jobs[j]
        /\ jobs'[Msg.job].que = Append(jobs[Msg.job].que, Msg) /\ ~jobs'[Msg.job].empty
        /\ jobs[Msg.job].que \in Queues
    BY <2>1 DEF RcmTypeOK, JobStates, Queues
  <2>3. /\ Len(jobs[Msg.job].que) \in Nat /\ DOMAIN jobs[Msg.job].que = 1 .. Len(jobs[Msg.job].que)
        /\ DOMAIN jobs'[Msg.job].que = 1 .. Len(jobs[Msg.job].que) + 1
        /\ jobs'[Msg.job].que[Len(jobs[Msg.job].que) + 1] = Msg
        /\ \A i \in DOMAIN jobs[Msg.job].que : jobs'[Msg.job].que[i] = jobs[Msg.job].que[i]
    <3>1. ASSUME NEW q \in Queues, jobs'[Msg.job].que = Append(q, Msg)
          PROVE  /\ Len(q) \in Nat /\ DOMAIN q = 1 .. Len(q) /\ DOMAIN jobs'[Msg.job].que = 1 .. Len(q) + 1
                 /\ jobs'[Msg.job].que[Len(q) + 1] = Msg /\ \A i \in DOMAIN q : jobs'[Msg.job].que[i] = q[i]
      BY <1>1, <3>1, QueueGrows
    <3> QED
      BY <2>2, <3>1
  <2>4. ASSUME NEW j \in Jobs, NEW i \in DOMAIN jobs'[j].que
        PROVE  \/ i \in DOMAIN jobs[j].que /\ jobs'[j].que[i] = jobs[j].que[i]
               \/ j = Msg.job /\ i = Len(jobs[j].que) + 1 /\ jobs'[j].que[i] = Msg
    <3>1. CASE j # Msg.job
      BY <2>2, <3>1
    <3>2. CASE j = Msg.job
      <4>1. i \in DOMAIN jobs[Msg.job].que \/ i = Len(jobs[Msg.job].que) + 1
        <5>1. i \in 1 .. Len(jobs[Msg.job].que) + 1 /\ Len(jobs[Msg.job].que) \in Nat
          BY <2>3, <3>2
        <5>2. i \in 1 .. Len(jobs[Msg.job].que) \/ i = Len(jobs[Msg.job].que) + 1
          BY <5>1
        <5> QED
          BY <2>3, <5>2
      <4> QED
        BY <2>3, <3>2, <4>1
    <3> QED
      BY <3>1, <3>2
  <2>5. ASSUME NEW m \in RcmMsg, InJob(m), ItsTurn(m) PROVE ItsTurn(m)'
    <3>1. m.job \in Jobs /\ m.id \in Nat
      BY <2>5, RcmMsgParts
    <3>2. Earlier(m.id)' /\ m.id < Msg.id /\ last'[m.job] < m.id
      BY <1>0, <1>2, <2>5, <3>1 DEF ItsTurn
    <3>3. ASSUME NEW k \in DOMAIN jobs'[m.job].que PROVE m.id < jobs'[m.job].que[k].id
      BY <2>4, <2>5, <3>1, <3>2 DEF ItsTurn
    <3> QED
      BY <3>2, <3>3 DEF ItsTurn
  <2>6. QueOrdered'
    <3>1. ASSUME NEW j \in Jobs PROVE Earlier(last[j])' /\ last[j] < Msg.id /\ last'[j] = last[j]
      BY <1>0, <1>2, MessageTypes DEF RcmInv, QueOrdered
    <3>3. ASSUME NEW j \in Jobs, NEW i \in DOMAIN jobs[j].que
          PROVE  /\ jobs[j].que[i].job = j /\ jobs[j].que[i].id \in Nat /\ last[j] < jobs[j].que[i].id
                 /\ jobs[j].que[i].id < Msg.id
                 /\ \A k \in DOMAIN jobs[j].que : i < k => jobs[j].que[i].id < jobs[j].que[k].id
      <4>1. jobs[j].que[i].id \in Nat
        BY MessageTypes, RcmMsgParts
      <4>2. Earlier(jobs[j].que[i].id)
        BY DEF RcmInv, QueOrdered
      <4> QED
        BY <1>2, <4>1, <4>2 DEF RcmInv, QueOrdered
    <3>4. ASSUME NEW j \in Jobs, NEW i \in DOMAIN jobs'[j].que
          PROVE  /\ jobs'[j].que[i].job = j /\ Earlier(jobs[j].que[i].id)' /\ last'[j] < jobs'[j].que[i].id
                 /\ \A k \in DOMAIN jobs'[j].que : i < k => jobs'[j].que[i].id < jobs'[j].que[k].id
      <4>1. CASE i \in DOMAIN jobs[j].que /\ jobs'[j].que[i] = jobs[j].que[i]
        <5>1. ASSUME NEW k \in DOMAIN jobs'[j].que, i < k PROVE jobs'[j].que[i].id < jobs'[j].que[k].id
          BY SMTT(30), <2>4, <3>3, <4>1, <5>1
        <5> QED
          BY <3>1, <3>3, <1>1, <1>6, <4>1, <5>1
      <4>2. CASE j = Msg.job /\ i = Len(jobs[j].que) + 1 /\ jobs'[j].que[i] = Msg
        <5>1. ASSUME NEW k \in DOMAIN jobs'[j].que PROVE ~(i < k)
          BY <2>3, <4>2
        <5>2. jobs'[j].que[i].job = j /\ jobs'[j].que[i].id = Msg.id /\ last'[j] < Msg.id
          BY <3>1, <4>2
        <5>3. Earlier(jobs[j].que[i].id)'
          BY <1>1, <1>6, <4>2, <5>2 DEF Earlier
        <5> QED
          BY <5>1, <5>2, <5>3
      <4> QED
        BY <2>4, <4>1, <4>2
    <3> QED
      BY <3>1, <3>4 DEF QueOrdered
  <2>7. ReadyOrdered'
    BY <2>1, <2>5, MessageTypes DEF RcmInv, ReadyOrdered, InJob
  <2>8. WorkersOrdered'
    BY <1>0, <2>5, MessageTypes DEF RcmInv, WorkersOrdered, InJob
  <2>9. ReadyDistinct' /\ ReadyNotHeld' /\ HeldDistinct'
    BY <1>0, <2>1 DEF RcmInv, ReadyDistinct, ReadyNotHeld, HeldDistinct, Holds, InJob
  <2>10. EmptyIsIdle'
    BY <1>0, <2>1, <2>2 DEF RcmInv, EmptyIsIdle, Holds
  <2> QED
    BY <1>3, <2>6, <2>7, <2>8, <2>9, <2>10 DEF RcmInv
<1>5. CASE ~Waits(Msg)
  <2>1. /\ jobs' = [j \in Jobs |-> IF j = Msg.job THEN [jobs[j] EXCEPT !.empty = FALSE] ELSE jobs[j]]
        /\ ready' = [ready EXCEPT ![Msg.pool] = Append(@, Msg)] /\ Msg.pool \in Pools
        /\ InJob(Msg) => jobs[Msg.job].listed /\ jobs[Msg.job].empty
    BY <1>0, <1>5 DEF ServerDispatches, Waits, Known, InJob
  <2>2. ASSUME NEW j \in Jobs
        PROVE  /\ jobs'[j].que = jobs[j].que /\ (j # Msg.job => jobs'[j] = jobs[j])
               /\ j = Msg.job => ~jobs'[j].empty
    BY <2>1 DEF RcmTypeOK, JobStates
  <2>3. /\ InJob(Msg) => /\ DOMAIN jobs[Msg.job].que = {}
                         /\ \A p \in Pools : \A i \in DOMAIN ready[p] : ready[p][i].job # Msg.job
                         /\ \A w \in Workers : Holds(w) => worker[w].msg.job # Msg.job
    BY <1>1, <2>1 DEF RcmInv, EmptyIsIdle
  <2>4. ASSUME NEW p \in Pools, NEW i \in DOMAIN ready'[p]
        PROVE  (i \in DOMAIN ready[p] /\ ready'[p][i] = ready[p][i]) \/ ready'[p][i] = Msg
    BY <1>1, <2>1, ReadyGrows
  <2>5. ASSUME NEW m \in RcmMsg, InJob(m), ItsTurn(m) PROVE ItsTurn(m)'
    <3>1. m.job \in Jobs /\ m.id \in Nat
      BY <2>5, RcmMsgParts
    <3> QED
      BY <1>0, <1>2, <2>2, <2>5, <3>1 DEF ItsTurn
  <2>6. QueOrdered'
    <3>1. ASSUME NEW j \in Jobs, NEW i \in DOMAIN jobs[j].que
          PROVE  jobs[j].que[i].id \in Nat /\ jobs[j].que[i].id <= Msg.id
      <4>1. jobs[j].que[i].id \in Nat
        BY MessageTypes, RcmMsgParts
      <4>2. Earlier(jobs[j].que[i].id)
        BY DEF RcmInv, QueOrdered
      <4> QED
        BY <1>1, <1>2, <4>1, <4>2
    <3>2. ASSUME NEW j \in Jobs PROVE Earlier(last[j])'
      BY <1>0, <1>2, MessageTypes DEF RcmInv, QueOrdered
    <3>3. ASSUME NEW j \in Jobs, NEW i \in DOMAIN jobs'[j].que
          PROVE  /\ jobs'[j].que[i].job = j /\ Earlier(jobs[j].que[i].id)' /\ last'[j] < jobs'[j].que[i].id
                 /\ \A k \in DOMAIN jobs'[j].que : i < k => jobs'[j].que[i].id < jobs'[j].que[k].id
      BY <1>0, <1>6, <2>2, <3>1 DEF RcmInv, QueOrdered
    <3> QED
      BY <3>2, <3>3 DEF QueOrdered
  <2>7. ReadyOrdered'
    <3>1. InJob(Msg) => ItsTurn(Msg)'
      <4>1. ASSUME InJob(Msg) PROVE last'[Msg.job] < Msg.id
        BY <1>0, <1>1, <1>2, <4>1, MessageTypes DEF RcmInv, QueOrdered
      <4>2. Earlier(Msg.id)' /\ Msg' = Msg
        BY <1>0, <1>1 DEF Earlier, Msg
      <4>3. ASSUME InJob(Msg) PROVE DOMAIN jobs'[Msg.job].que = {}
        BY <1>1, <2>2, <2>3, <4>3
      <4> QED
        BY <4>1, <4>2, <4>3 DEF ItsTurn
    <3>2. Msg' = Msg
      BY <1>0 DEF Msg
    <3>3. ASSUME NEW p \in Pools, NEW i \in DOMAIN ready'[p], InJob(ready'[p][i]) PROVE ItsTurn(ready[p][i])'
      <4>1. CASE i \in DOMAIN ready[p] /\ ready'[p][i] = ready[p][i]
        BY <2>5, <3>3, <4>1, MessageTypes DEF RcmInv, ReadyOrdered
      <4>2. CASE ready'[p][i] = Msg
        BY <3>1, <3>2, <3>3, <4>2
      <4> QED
        BY <2>4, <4>1, <4>2
    <3> QED
      BY <3>3 DEF ReadyOrdered, InJob
  <2>8. WorkersOrdered'
    BY <1>0, <2>5, MessageTypes DEF RcmInv, WorkersOrdered, InJob
  <2>9. ReadyDistinct' /\ ReadyNotHeld' /\ HeldDistinct'
    <3>1. HandsOver(Msg.pool, Msg)
      BY <1>0, <2>1, <2>3 DEF HandsOver, Holds
    <3> QED
      BY <1>1, <2>1, <3>1, HandsOverOne
  <2>10. EmptyIsIdle'
    <3>1. ASSUME NEW j \in Jobs, jobs'[j].listed, jobs'[j].empty
          PROVE  /\ DOMAIN jobs'[j].que = {}
                 /\ \A p \in Pools : \A i \in DOMAIN ready'[p] : ready'[p][i].job # j
                 /\ \A w \in Workers : Holds(w) => worker[w].msg.job # j
      <4>1. j # Msg.job /\ jobs'[j] = jobs[j]
        BY <2>2, <3>1
      <4> QED
        BY <2>4, <3>1, <4>1 DEF RcmInv, EmptyIsIdle
    <3> QED
      BY <1>0, <3>1 DEF EmptyIsIdle, Holds
  <2> QED
    BY <1>3, <2>6, <2>7, <2>8, <2>9, <2>10 DEF RcmInv
<1> QED
  BY <1>4, <1>5

\* A worker that was free takes the oldest message of its pool.
LEMMA TakesOrder ==
  ASSUME RcmTypeOK, RcmInv, NEW w \in Workers, WorkerTakes(w), RcmTypeOK'
  PROVE  RcmInv'
<1>0. UNCHANGED <<inbox, sent, server, jobs, lastJob, last>> /\ worker[w].pc = "check" /\ PoolOf[w] \in Pools
  BY DEF WorkerTakes, WorkerAt, PoolOf, Workers
<1>1. CASE UNCHANGED ready /\ \E place \in {"end", "pend"} : WorkerGoto(w, place)
  <2>1. WorkersKeep /\ ServerKeeps /\ KeepQueues
    BY <1>0, <1>1, GotoKeeps DEF KeepQueues
  <2> QED
    BY <2>1, QuietLoses, LosesOrder
<1>2. CASE /\ ready[PoolOf[w]] # <<>>
           /\ worker' = [worker EXCEPT ![w].pc = "process", ![w].msg = Head(ready[PoolOf[w]])]
           /\ ready' = [ready EXCEPT ![PoolOf[w]] = Tail(ready[PoolOf[w]])]
  <2> DEFINE p == PoolOf[w]
  <2>1. /\ Len(ready[p]) \in Nat \ {0} /\ DOMAIN ready[p] = 1 .. Len(ready[p])
        /\ DOMAIN Tail(ready[p]) = 1 .. Len(ready[p]) - 1
        /\ \A i \in 1 .. Len(ready[p]) - 1 : Tail(ready[p])[i] = ready[p][i + 1]
        /\ Head(ready[p]) = ready[p][1]
    <3>1. ready[p] \in Queues
      BY <1>0 DEF RcmTypeOK
    <3> QED
      BY <1>2, <3>1, QueueParts
  <2>2. ready'[p] = Tail(ready[p]) /\ \A q \in Pools : q # p => ready'[q] = ready[q]
    BY <1>0, <1>2 DEF RcmTypeOK
  <2>3. /\ worker'[w].pc = "process" /\ worker'[w].msg = ready[p][1] /\ 1 \in DOMAIN ready[p]
        /\ \A v \in Workers : v # w => worker'[v] = worker[v]
    BY <1>2, <2>1 DEF RcmTypeOK, WorkerStates
  <2> HIDE DEF p
  <2>4. ASSUME NEW q \in Pools, NEW i \in DOMAIN ready'[q]
        PROVE  \/ q # p /\ i \in DOMAIN ready[q] /\ ready'[q][i] = ready[q][i]
               \/ q = p /\ i \in Nat \ {0} /\ i + 1 \in DOMAIN ready[p] /\ ready'[p][i] = ready[p][i + 1]
    <3>1. CASE q # p
      BY <2>2, <3>1
    <3>2. CASE q = p
      <4>1. i \in 1 .. Len(ready[p]) - 1
        BY <2>1, <2>2, <3>2
      <4>2. i \in Nat \ {0} /\ i + 1 \in 1 .. Len(ready[p])
        BY <2>1, <4>1
      <4> QED
        BY <2>1, <2>2, <3>2, <4>1, <4>2
    <3> QED
      BY <3>1, <3>2
  <2>5. p \in Pools
    BY <1>0 DEF p
  <2>6. ASSUME NEW m, ItsTurn(m) PROVE ItsTurn(m)'
    BY <1>0, <2>6 DEF ItsTurn, Earlier
  <2>7. InboxOrdered' /\ QueOrdered'
    BY <1>0 DEF RcmInv, InboxOrdered, QueOrdered, Earlier
  <2>8. ReadyOrdered'
    BY <2>4, <2>6 DEF RcmInv, ReadyOrdered, InJob
  <2>9. WorkersOrdered'
    <3>1. ASSUME NEW v \in Workers, worker'[v].pc = "process", InJob(worker'[v].msg) PROVE ItsTurn(worker[v].msg)'
      <4>1. CASE v = w
        BY <2>3, <2>5, <2>6, <3>1, <4>1 DEF RcmInv, ReadyOrdered
      <4>2. CASE v # w
        BY <2>3, <2>6, <3>1, <4>2 DEF RcmInv, WorkersOrdered
      <4> QED
        BY <4>1, <4>2
    <3> QED
      BY <3>1 DEF WorkersOrdered, InJob
  <2>10. ReadyDistinct'
    <3> SUFFICES ASSUME NEW q \in Pools, NEW r \in Pools, NEW i \in DOMAIN ready'[q], NEW k \in DOMAIN ready'[r],
                        InJob(ready'[q][i]), ready'[q][i].job = ready'[r][k].job
                 PROVE  q = r /\ i = k
      BY DEF ReadyDistinct, InJob
    <3>1. CASE q # p /\ r # p
      BY <2>4, <3>1 DEF RcmInv, ReadyDistinct, InJob
    <3>2. CASE q = p /\ r # p
      BY <2>4, <3>2 DEF RcmInv, ReadyDistinct, InJob
    <3>3. CASE q # p /\ r = p
      BY <2>4, <3>3 DEF RcmInv, ReadyDistinct, InJob
    <3>4. CASE q = p /\ r = p
      <4>1. i + 1 = k + 1 /\ i \in Nat /\ k \in Nat
        BY <2>4, <2>5, <3>4 DEF RcmInv, ReadyDistinct, InJob
      <4> QED
        BY <3>4, <4>1
    <3> QED
      BY <3>1, <3>2, <3>3, <3>4
  <2>11. ReadyNotHeld'
    <3> SUFFICES ASSUME NEW q \in Pools, NEW v \in Workers, NEW i \in DOMAIN ready'[q],
                        Holds(v)', InJob(ready'[q][i])
                 PROVE  ready'[q][i].job # worker'[v].msg.job
      BY DEF ReadyNotHeld, InJob
    <3>1. CASE v # w
      BY <2>3, <2>4, <2>5, <3>1 DEF RcmInv, ReadyNotHeld, Holds
    <3>2. CASE v = w
      <4>1. CASE q # p
        BY <2>3, <2>4, <2>5, <3>2, <4>1 DEF RcmInv, ReadyDistinct
      <4>2. CASE q = p
        <5>1. i + 1 \in DOMAIN ready[p] /\ ready'[p][i] = ready[p][i + 1] /\ i + 1 # 1
          BY <2>4, <4>2
        <5> QED
          BY <2>3, <2>5, <3>2, <4>2, <5>1 DEF RcmInv, ReadyDistinct
      <4> QED
        BY <4>1, <4>2
    <3> QED
      BY <3>1, <3>2
  <2>12. HeldDistinct'
    <3> SUFFICES ASSUME NEW u \in Workers, NEW v \in Workers, Holds(u)', Holds(v)', InJob(worker'[u].msg),
                        worker'[u].msg.job = worker'[v].msg.job
                 PROVE  u = v
      BY DEF HeldDistinct, InJob
    <3>1. CASE u # w /\ v # w
      BY <2>3, <3>1 DEF RcmInv, HeldDistinct, Holds
    <3>2. CASE u = w /\ v # w
      BY <2>3, <2>5, <3>2 DEF RcmInv, ReadyNotHeld, Holds
    <3>3. CASE u # w /\ v = w
      BY <2>3, <2>5, <3>3 DEF RcmInv, ReadyNotHeld, Holds, InJob
    <3> QED
      BY <3>1, <3>2, <3>3
  <2>13. EmptyIsIdle'
    <3> SUFFICES ASSUME NEW j \in Jobs, jobs[j].listed, jobs[j].empty
                 PROVE  /\ DOMAIN jobs[j].que = {}
                        /\ \A q \in Pools : \A i \in DOMAIN ready'[q] : ready'[q][i].job # j
                        /\ \A v \in Workers : Holds(v)' => worker'[v].msg.job # j
      BY <1>0 DEF EmptyIsIdle
    <3>1. /\ DOMAIN jobs[j].que = {}
          /\ \A q \in Pools : \A i \in DOMAIN ready[q] : ready[q][i].job # j
          /\ \A v \in Workers : Holds(v) => worker[v].msg.job # j
      BY DEF RcmInv, EmptyIsIdle
    <3>2. ASSUME NEW q \in Pools, NEW i \in DOMAIN ready'[q] PROVE ready'[q][i].job # j
      BY <2>4, <2>5, <3>1
    <3>3. ASSUME NEW v \in Workers, Holds(v)' PROVE worker'[v].msg.job # j
      BY <2>3, <2>5, <3>1, <3>3 DEF Holds
    <3> QED
      BY <3>1, <3>2, <3>3
  <2>14. JobsKnown'
    <3>1. \A q \in Pools : \A i \in DOMAIN ready'[q] : ready'[q][i].job <= lastJob
      BY <2>4, <2>5 DEF RcmInv, JobsKnown
    <3>2. \A v \in Workers : worker'[v].msg.job <= lastJob
      BY <2>3, <2>5 DEF RcmInv, JobsKnown
    <3> QED
      BY <1>0, <3>1, <3>2 DEF RcmInv, JobsKnown
  <2> QED
    BY <2>7, <2>8, <2>9, <2>10, <2>11, <2>12, <2>13, <2>14 DEF RcmInv
<1> QED
  BY <1>1, <1>2 DEF WorkerTakes

\* The message that a worker answers is the newest that its job has executed.
LEMMA AnswersOrder ==
  ASSUME RcmTypeOK, RcmInv, NEW w \in Workers, WorkerAnswers(w)
  PROVE  RcmInv'
<1> DEFINE j == worker[w].msg.job
           id == worker[w].msg.id
<1>1. /\ UNCHANGED <<inbox, sent, server, jobs, lastJob, ready>> /\ worker[w].pc = "process"
      /\ \A k \in Jobs : last'[k] = IF k = j THEN id ELSE last[k]
      /\ id \in Nat /\ (InJob(worker[w].msg) => j \in Jobs) /\ (j \in Jobs => InJob(worker[w].msg))
  <2>1. id \in Nat /\ (InJob(worker[w].msg) => j \in Jobs)
    BY MessageTypes, RcmMsgParts
  <2>2. j \in Jobs => InJob(worker[w].msg)
    BY DEF Jobs, InJob, Discrete
  <2>3. \A k \in Jobs : last'[k] = IF k = j THEN id ELSE last[k]
    BY DEF WorkerAnswers
  <2> QED
    BY <2>1, <2>2, <2>3 DEF WorkerAnswers, WorkerAt
<1>2. \A v \in Workers : /\ worker'[v].msg = worker[v].msg
                         /\ worker'[v].pc = worker[v].pc \/ (v = w /\ worker'[v].pc \in {"pend", "next"})
  BY DEF WorkerAnswers, WorkerGoto, RcmTypeOK, WorkerStates
<1>a. worker'[w].pc # "process"
  BY DEF WorkerAnswers, WorkerGoto, RcmTypeOK, WorkerStates
<1> HIDE DEF j, id
<1>3. InJob(worker[w].msg) => ItsTurn(worker[w].msg)
  BY <1>1 DEF RcmInv, WorkersOrdered
<1>4. ASSUME NEW m, InJob(m), m.job # j, ItsTurn(m), m.job \in Jobs PROVE ItsTurn(m)'
  BY <1>1, <1>4 DEF ItsTurn, Earlier
<1>5. InboxOrdered' /\ JobsKnown' /\ EmptyIsIdle' /\ ReadyDistinct' /\ ReadyNotHeld' /\ HeldDistinct'
  <2>1. ASSUME NEW v \in Workers, Holds(v)' PROVE Holds(v)
    BY <1>1, <1>2, <2>1 DEF Holds
  <2>2. InboxOrdered' /\ ReadyDistinct'
    BY <1>1 DEF RcmInv, InboxOrdered, ReadyDistinct, InJob
  <2>3. JobsKnown' /\ EmptyIsIdle' /\ ReadyNotHeld' /\ HeldDistinct'
    BY <1>1, <1>2, <2>1 DEF RcmInv, JobsKnown, EmptyIsIdle, ReadyNotHeld, HeldDistinct, InJob
  <2> QED
    BY <2>2, <2>3
<1>6. QueOrdered'
  <2> SUFFICES ASSUME NEW k \in Jobs
               PROVE  /\ Earlier(last'[k])
                      /\ \A i \in DOMAIN jobs[k].que :
                           /\ jobs[k].que[i].job = k /\ Earlier(jobs[k].que[i].id) /\ last'[k] < jobs[k].que[i].id
                           /\ \A x \in DOMAIN jobs[k].que : i < x => jobs[k].que[i].id < jobs[k].que[x].id
    BY <1>1 DEF QueOrdered, Earlier
  <2>1. CASE k # j
    BY <1>1, <2>1 DEF RcmInv, QueOrdered
  <2>2. CASE k = j
    <3>1. Earlier(id) /\ \A i \in DOMAIN jobs[k].que : id < jobs[k].que[i].id
      BY <1>1, <1>3, <2>2 DEF ItsTurn, id, j
    <3> QED
      BY <1>1, <2>2, <3>1 DEF RcmInv, QueOrdered
  <2> QED
    BY <2>1, <2>2
<1>7. ReadyOrdered'
  <2> SUFFICES ASSUME NEW p \in Pools, NEW i \in DOMAIN ready[p], InJob(ready[p][i]) PROVE ItsTurn(ready[p][i])'
    BY <1>1 DEF ReadyOrdered, InJob
  <2>1. ready[p][i].job # j /\ ItsTurn(ready[p][i])
    BY <1>1 DEF RcmInv, ReadyOrdered, ReadyNotHeld, Holds, j
  <2>2. ready[p][i].job \in Jobs /\ ready'[p][i] = ready[p][i]
    BY <1>1, MessageTypes, RcmMsgParts
  <2> QED
    BY <1>4, <2>1, <2>2
<1>8. WorkersOrdered'
  <2> SUFFICES ASSUME NEW v \in Workers, worker'[v].pc = "process", InJob(worker'[v].msg) PROVE ItsTurn(worker[v].msg)'
    BY DEF WorkersOrdered, InJob
  <2>1. v # w /\ worker'[v].msg = worker[v].msg /\ worker[v].pc = "process"
    BY <1>2, <1>a
  <2>2. worker[v].msg.job # j /\ ItsTurn(worker[v].msg)
    BY <1>1, <2>1 DEF RcmInv, WorkersOrdered, HeldDistinct, Holds, j
  <2>3. worker[v].msg.job \in Jobs
    BY <2>1, MessageTypes, RcmMsgParts
  <2> QED
    BY <1>4, <2>1, <2>2, <2>3
<1> QED
  BY <1>5, <1>6, <1>7, <1>8 DEF RcmInv

\* A worker that is done lets the next message of the job go to its pool.
LEMMA QueuesNextOrder ==
  ASSUME RcmTypeOK, RcmInv, NextHasJob, NEW w \in Workers, WorkerQueuesNext(w), RcmTypeOK'
  PROVE  RcmInv'
<1> DEFINE j == worker[w].msg.job
           q == jobs[j].que
           p == Head(q).pool
<1>0. /\ UNCHANGED <<inbox, sent, server, lastJob, last>> /\ worker[w].pc = "next" /\ WorkerGoto(w, "pend")
      /\ WorkersKeep /\ ServerKeeps
  BY ZenonT(60), GotoKeeps DEF WorkerQueuesNext, WorkerAt
<1>1. InJob(worker[w].msg) /\ j \in Jobs
  BY <1>0, MessageTypes, RcmMsgParts DEF NextHasJob
<1>2. ASSUME NEW v \in Workers
      PROVE  worker'[v].msg = worker[v].msg /\ (Holds(v)' => v # w /\ Holds(v) /\ worker[v].msg.job # j)
  <2>1. worker'[w].pc = "pend"
    BY <1>0 DEF WorkerGoto, RcmTypeOK, WorkerStates
  <2>2. worker'[v].msg = worker[v].msg /\ (Holds(v)' => v # w /\ Holds(v))
    BY <1>0, <2>1 DEF WorkersKeep, Holds
  <2> QED
    BY <1>0, <1>1, <2>2 DEF RcmInv, HeldDistinct, Holds
<1>3. \A r \in Pools : \A i \in DOMAIN ready[r] : ready[r][i].job # j
  BY <1>0, <1>1 DEF RcmInv, ReadyNotHeld, Holds, InJob
<1>q. q \in Queues
  BY <1>1 DEF RcmTypeOK, JobStates, Queues
<1>4. CASE UNCHANGED <<jobs, ready, sem>>
  <2>1. KeepQueues
    BY <1>0, <1>4 DEF KeepQueues
  <2> QED
    BY <1>0, <2>1, QuietLoses, LosesOrder
<1>5. CASE jobs[j].listed /\ q = <<>> /\ jobs' = [jobs EXCEPT ![j] = RunsEmpty(@)] /\ UNCHANGED <<ready, sem>>
  <2>1. ASSUME NEW k \in Jobs
        PROVE  jobs'[k].que = jobs[k].que /\ jobs'[k].listed = jobs[k].listed /\ (k # j => jobs'[k] = jobs[k])
    BY <1>5 DEF RunsEmpty, RcmTypeOK, JobStates
  <2>2. InboxOrdered' /\ JobsKnown'
    BY <1>0, <1>2, <1>5, <2>1 DEF RcmInv, InboxOrdered, JobsKnown
  <2>3. QueOrdered'
    BY <1>0, <2>1 DEF RcmInv, QueOrdered, Earlier
  <2>4. ASSUME NEW m, m.job \in Jobs, ItsTurn(m) PROVE ItsTurn(m)'
    BY <1>0, <2>1, <2>4 DEF ItsTurn, Earlier
  <2>5. ReadyOrdered'
    BY <1>5, <2>4, MessageTypes, RcmMsgParts DEF RcmInv, ReadyOrdered, InJob
  <2>6. WorkersOrdered'
    <3> SUFFICES ASSUME NEW v \in Workers, worker'[v].pc = "process", InJob(worker'[v].msg)
                 PROVE  ItsTurn(worker[v].msg)'
      BY DEF WorkersOrdered, InJob
    <3>1. worker'[v].msg = worker[v].msg /\ worker[v].pc = "process"
      BY <1>0 DEF WorkersKeep
    <3>2. ItsTurn(worker[v].msg) /\ worker[v].msg.job \in Jobs
      BY <3>1, MessageTypes, RcmMsgParts DEF RcmInv, WorkersOrdered
    <3> QED
      BY <2>4, <3>1, <3>2
  <2>7. ReadyDistinct' /\ ReadyNotHeld' /\ HeldDistinct'
    BY <1>2, <1>5 DEF RcmInv, ReadyDistinct, ReadyNotHeld, HeldDistinct, InJob
  <2>8. EmptyIsIdle'
    <3> SUFFICES ASSUME NEW k \in Jobs, jobs'[k].listed, jobs'[k].empty
                 PROVE  /\ DOMAIN jobs'[k].que = {}
                        /\ \A r \in Pools : \A i \in DOMAIN ready[r] : ready[r][i].job # k
                        /\ \A v \in Workers : Holds(v)' => worker'[v].msg.job # k
      BY <1>5 DEF EmptyIsIdle
    <3>1. CASE k # j
      BY <1>2, <2>1, <3>1 DEF RcmInv, EmptyIsIdle
    <3>2. CASE k = j
      <4>1. DOMAIN <<>> = {}
        OBVIOUS
      <4> QED
        BY <1>2, <1>3, <1>5, <2>1, <3>2, <4>1
    <3> QED
      BY <3>1, <3>2
  <2> QED
    BY <2>2, <2>3, <2>5, <2>6, <2>7, <2>8 DEF RcmInv
<1>6. CASE /\ jobs[j].listed /\ q # <<>> /\ jobs' = [jobs EXCEPT ![j].que = Tail(q)]
           /\ ready' = [ready EXCEPT ![p] = Append(@, Head(q))]
  <2>1. ASSUME NEW k \in Jobs
        PROVE  /\ jobs'[k].que = IF k = j THEN Tail(q) ELSE jobs[k].que
               /\ jobs'[k].listed = jobs[k].listed /\ jobs'[k].empty = jobs[k].empty
    BY ZenonT(60), <1>1, <1>6 DEF RcmTypeOK, JobStates
  <2>2. Head(q) \in RcmMsg /\ Head(q) = q[1] /\ 1 \in DOMAIN q
    <3>1. ASSUME NEW s \in Queues, s # <<>> PROVE Head(s) \in RcmMsg /\ Head(s) = s[1] /\ 1 \in DOMAIN s
      BY <3>1, QueueParts
    <3> QED
      BY ZenonT(60), <1>6, <1>q, <3>1
  <2>3. ASSUME NEW k \in Jobs PROVE Rest(jobs'[k].que, jobs[k].que)
    <3>1. jobs[k].que \in Queues
      BY DEF RcmTypeOK, JobStates, Queues
    <3>2. CASE k = j
      <4>1. jobs[k].que # <<>> /\ jobs'[k].que = Tail(jobs[k].que)
        BY ZenonT(60), <1>6, <2>1, <3>2
      <4> QED
        BY <3>1, <4>1, RestTail
    <3>3. CASE k # j
      BY <2>1, <3>1, <3>3, RestSame
    <3> QED
      BY <3>2, <3>3
  <2>4. CASE p \notin Pools
    <3>1. UNCHANGED ready
      BY ZenonT(60), <1>6, <2>4 DEF RcmTypeOK
    <3>2. ASSUME NEW r \in Pools PROVE Rest(ready'[r], ready[r])
      BY <3>1, RestSame DEF RcmTypeOK
    <3> QED
      BY <1>0, <2>1, <2>3, <3>2, LosesOrder DEF Loses, WorkersKeep, ServerKeeps
  <2>5. CASE p \in Pools
    <3> DEFINE m == Head(q)
    <3>0. /\ m \in RcmMsg /\ m = q[1] /\ m.job = j /\ InJob(m) /\ ~jobs[j].empty
          /\ Earlier(m.id) /\ last[j] < m.id /\ m.id \in Nat
      <4>1. m.job = j /\ Earlier(m.id) /\ last[j] < m.id
        BY <1>1, <2>2 DEF RcmInv, QueOrdered
      <4>2. ~jobs[j].empty
        BY ZenonT(60), <1>0, <1>1, <1>6 DEF RcmInv, EmptyIsIdle, Holds
      <4> QED
        BY ZenonT(60), <1>1, <2>2, <4>1, <4>2, RcmMsgParts DEF InJob
    <3>1. ready' = [ready EXCEPT ![p] = Append(@, m)]
      BY ZenonT(60), <1>6
    <3>d. /\ Len(q) \in Nat \ {0} /\ DOMAIN q = 1 .. Len(q) /\ DOMAIN Tail(q) = 1 .. Len(q) - 1
          /\ \A i \in 1 .. Len(q) - 1 : Tail(q)[i] = q[i + 1]
      BY ZenonT(60), <1>6, <1>q, QueueParts
    <3> HIDE DEF m, p, j, q
    <3>2. ASSUME NEW r \in Pools, NEW i \in DOMAIN ready'[r]
          PROVE  (i \in DOMAIN ready[r] /\ ready'[r][i] = ready[r][i]) \/ ready'[r][i] = m
      BY <2>5, <3>0, <3>1, ReadyGrows
    <3>3. ASSUME NEW n, n.job \in Jobs, n.job # j, ItsTurn(n) PROVE ItsTurn(n)'
      BY <1>0, <2>1, <3>3 DEF ItsTurn, Earlier
    <3>4. InboxOrdered' /\ JobsKnown'
      <4>1. \A r \in Pools : \A i \in DOMAIN ready'[r] : ready'[r][i].job <= lastJob
        BY <3>0, <3>2 DEF RcmInv, JobsKnown, j
      <4> QED
        BY <1>0, <1>2, <2>1, <4>1 DEF RcmInv, InboxOrdered, JobsKnown
    <3>5. QueOrdered'
      <4> SUFFICES ASSUME NEW k \in Jobs
                   PROVE  /\ Earlier(last[k])
                          /\ \A i \in DOMAIN jobs'[k].que :
                               /\ jobs'[k].que[i].job = k /\ Earlier(jobs'[k].que[i].id) /\ last[k] < jobs'[k].que[i].id
                               /\ \A x \in DOMAIN jobs'[k].que : i < x => jobs'[k].que[i].id < jobs'[k].que[x].id
        BY <1>0 DEF QueOrdered, Earlier
      <4>1. CASE k # j
        BY <2>1, <4>1 DEF RcmInv, QueOrdered
      <4>2. CASE k = j
        <5>1. jobs'[k].que = Tail(q) /\ jobs[k].que = q
          BY <2>1, <4>2 DEF q
        <5>2. ASSUME NEW i \in DOMAIN Tail(q)
              PROVE  i + 1 \in DOMAIN q /\ Tail(q)[i] = q[i + 1] /\ i \in Nat
          BY <3>d
        <5>3. ASSUME NEW i \in DOMAIN Tail(q), NEW x \in DOMAIN Tail(q), i < x PROVE i + 1 < x + 1
          BY <5>2, <5>3
        <5> QED
          BY <5>1, <5>2, <5>3 DEF RcmInv, QueOrdered
      <4> QED
        BY <4>1, <4>2
    <3>6. ReadyOrdered'
      <4>1. ASSUME NEW n, n = m PROVE ItsTurn(n)'
        <5>1. ASSUME NEW i \in DOMAIN Tail(q) PROVE m.id < Tail(q)[i].id
          <6>1. i + 1 \in DOMAIN q /\ Tail(q)[i] = q[i + 1] /\ 1 < i + 1 /\ 1 \in DOMAIN q
            BY <3>d
          <6> QED
            BY <1>1, <3>0, <6>1 DEF RcmInv, QueOrdered, q
        <5>2. jobs'[j].que = Tail(q)
          BY <1>1, <2>1
        <5> QED
          BY <1>0, <3>0, <4>1, <5>1, <5>2 DEF ItsTurn, Earlier
      <4>2. ASSUME NEW r \in Pools, NEW i \in DOMAIN ready'[r], InJob(ready'[r][i]) PROVE ItsTurn(ready[r][i])'
        <5>1. CASE ready'[r][i] = m
          BY <4>1, <5>1
        <5>2. CASE i \in DOMAIN ready[r] /\ ready'[r][i] = ready[r][i]
          <6>1. ItsTurn(ready[r][i]) /\ ready[r][i].job \in Jobs /\ ready[r][i].job # j
            BY <1>3, <4>2, <5>2, MessageTypes, RcmMsgParts DEF RcmInv, ReadyOrdered
          <6> QED
            BY <3>3, <5>2, <6>1
        <5> QED
          BY <3>2, <5>1, <5>2
      <4> QED
        BY <4>2 DEF ReadyOrdered, InJob
    <3>7. WorkersOrdered'
      <4> SUFFICES ASSUME NEW v \in Workers, worker'[v].pc = "process", InJob(worker'[v].msg)
                   PROVE  ItsTurn(worker[v].msg)'
        BY DEF WorkersOrdered, InJob
      <4>1. worker'[v].msg = worker[v].msg /\ worker[v].pc = "process" /\ worker[v].msg.job # j
        BY <1>0, <1>2 DEF WorkersKeep, Holds
      <4>2. ItsTurn(worker[v].msg) /\ worker[v].msg.job \in Jobs
        BY <4>1, MessageTypes, RcmMsgParts DEF RcmInv, WorkersOrdered
      <4> QED
        BY <3>3, <4>1, <4>2
    <3>8. ReadyDistinct' /\ ReadyNotHeld' /\ HeldDistinct'
      <4>1. HandsOver(p, m)
        BY <1>2, <1>3, <3>0, <3>1 DEF HandsOver
      <4> QED
        BY <2>5, <3>0, <4>1, HandsOverOne
    <3>9. EmptyIsIdle'
      <4> SUFFICES ASSUME NEW k \in Jobs, jobs'[k].listed, jobs'[k].empty
                   PROVE  /\ DOMAIN jobs'[k].que = {}
                          /\ \A r \in Pools : \A i \in DOMAIN ready'[r] : ready'[r][i].job # k
                          /\ \A v \in Workers : Holds(v)' => worker'[v].msg.job # k
        BY DEF EmptyIsIdle
      <4>1. k # j /\ jobs[k].listed /\ jobs[k].empty /\ jobs'[k].que = jobs[k].que
        BY <2>1, <3>0
      <4> QED
        BY <1>2, <3>0, <3>2, <4>1 DEF RcmInv, EmptyIsIdle
    <3> QED
      BY <3>4, <3>5, <3>6, <3>7, <3>8, <3>9 DEF RcmInv
  <2> QED
    BY <2>4, <2>5
<1> QED
  BY ZenonT(60), <1>4, <1>5, <1>6 DEF WorkerQueuesNext

\* The steps of a worker keep the order.
LEMMA WorkerOrder ==
  ASSUME RcmTypeOK, RcmInv, NextHasJob, NEW w \in Workers, WorkerStep(w)
  PROVE  RcmInv'
<1>0. RcmTypeOK'
  BY WorkerType
<1>1. CASE WorkerPends(w)
  <2>1. WorkersKeep /\ ServerKeeps /\ KeepQueues
    BY <1>1, GotoKeeps DEF WorkerPends, KeepQueues
  <2> QED
    BY <1>0, <2>1, QuietLoses, LosesOrder
<1>2. CASE WorkerCallsUnfound(w) \/ WorkerWalksDeletedList(w)
  BY <1>0, <1>2, FaultQuiet, LosesOrder DEF WorkerCallsUnfound, WorkerWalksDeletedList, CallsUnfound
<1> QED
  BY <1>0, <1>1, <1>2, TakesOrder, AnswersOrder, QueuesNextOrder DEF WorkerStep

\* What the steps do to the two facts about the places of the threads.
LEMMA PlacesKept ==
  ASSUME RcmTypeOK, NextHasJob, DeleterHasPool, [RcmNext]_rcmVars
  PROVE  NextHasJob' /\ DeleterHasPool'
<1>1. CASE UNCHANGED <<worker, deleter>>
  BY <1>1 DEF NextHasJob, DeleterHasPool, InJob
<1>2. CASE CreatorStep
  <2>1. CreatorStep => \/ UNCHANGED <<worker, deleter>>
                       \/ \E pools : Undo(pools)
                       \/ \E w \in Workers : WorkerGoto(w, "pend") /\ UNCHANGED deleter
    BY DEF CreatorStep, InitList, InitTable, InitPools, InitWorker, InitServer, Fault
  <2>2. CASE \E pools : Undo(pools)
    BY <2>2 DEF Undo, NextHasJob, DeleterHasPool, InJob
  <2>3. CASE \E w \in Workers : WorkerGoto(w, "pend") /\ UNCHANGED deleter
    <3>1. DeleterHasPool'
      BY <2>3 DEF DeleterHasPool
    <3>2. NextHasJob'
      BY <2>3 DEF NextHasJob, InJob, WorkerGoto, RcmTypeOK, WorkerStates
    <3> QED
      BY <3>1, <3>2
  <2> QED
    BY <1>1, <1>2, <2>1, <2>2, <2>3
<1>3. CASE Delete \/ DeletesJobs
  <2>1. UNCHANGED worker /\ (UNCHANGED deleter \/ DeleterGoto("join") \/ DeleterGoto("pools"))
    BY <1>3 DEF Delete, DeletesJobs
  <2> QED
    BY <2>1 DEF DeleterGoto, NextHasJob, DeleterHasPool, InJob, RcmTypeOK, DeleterStates
<1>4. CASE Terminates
  <2>1. DeleterHasPool'
    BY <1>4 DEF Terminates, DeleterGoto, DeleterHasPool, RcmTypeOK, DeleterStates
  <2>2. NextHasJob'
    BY <1>4 DEF Terminates, NextHasJob, InJob, RcmTypeOK, WorkerStates
  <2> QED
    BY <2>1, <2>2
<1>5. CASE DeletesPool
  BY <1>5 DEF DeletesPool, NextHasJob, DeleterHasPool, InJob
<1>6. ASSUME NEW w \in Workers, WorkerStep(w) PROVE NextHasJob' /\ DeleterHasPool'
  <2>1. UNCHANGED deleter
    BY ZenonT(60), <1>6 DEF WorkerStep, WorkerPends, WorkerTakes, WorkerAnswers, WorkerCallsUnfound, WorkerQueuesNext,
                WorkerWalksDeletedList, CallsUnfound, Fault
  <2>2. \/ UNCHANGED worker
        \/ \E place \in {"check", "end", "pend"} : WorkerGoto(w, place)
        \/ worker[w].msg.job # Discrete /\ WorkerGoto(w, "next")
        \/ \E m : worker' = [worker EXCEPT ![w].pc = "process", ![w].msg = m]
    BY ZenonT(60), <1>6 DEF WorkerStep, WorkerPends, WorkerTakes, WorkerAnswers, WorkerCallsUnfound, WorkerQueuesNext,
                WorkerWalksDeletedList, CallsUnfound, Fault
  <2>3. ASSUME NEW v \in Workers, worker'[v].pc = "next" PROVE InJob(worker'[v].msg)
    BY <2>2, <2>3 DEF WorkerGoto, NextHasJob, InJob, RcmTypeOK, WorkerStates
  <2> QED
    BY <2>1, <2>3 DEF NextHasJob, DeleterHasPool, InJob
<1>7. CASE ServerStep
  BY <1>1, <1>7 DEF ServerStep, ServerGets, ServerCalls, ServerCallsUnfound, ServerAcquires, ServerReleases, ServerReturns,
                    ServerDispatches, ServerPosts, ServerRefuses, CallsUnfound, Fault
<1>8. CASE Start \/ \E m \in Calls \cup Acquires \cup Releases : Send(m)
  BY <1>1, <1>8 DEF Start, Send
<1> QED
  BY <1>1, <1>2, <1>3, <1>4, <1>5, <1>6, <1>7, <1>8 DEF RcmNext, DeleterStep, rcmVars

\* Every step keeps the types,
LEMMA TypeKept ==
  ASSUME RcmTypeOK, NextHasJob, DeleterHasPool, [RcmNext]_rcmVars
  PROVE  RcmTypeOK'
<1>1. CASE Start
  BY <1>1, ServerGotoType DEF Start, RcmTypeOK, ServerPlaces
<1>2. CASE Delete
  BY <1>2, DeleterGotoType DEF Delete, RcmTypeOK
<1>3. CASE UNCHANGED rcmVars
  BY <1>3 DEF rcmVars, RcmTypeOK
<1> QED
  BY <1>1, <1>2, <1>3, SendType, CreatorType, ServerType, DeleterType, WorkerType DEF RcmNext

\* and the order,
LEMMA OrderKept ==
  ASSUME RcmTypeOK, RcmTypeOK', NextHasJob, RcmInv, [RcmNext]_rcmVars
  PROVE  RcmInv'
<1>1. CASE Start \/ Delete \/ UNCHANGED rcmVars
  <2>1. WorkersKeep /\ ServerKeeps /\ KeepQueues
    BY <1>1, GotoKeeps DEF Start, Delete, rcmVars, KeepQueues
  <2> QED
    BY <2>1, QuietLoses, LosesOrder
<1>2. CASE CreatorStep
  BY <1>2, CreatorLoses, LosesOrder
<1>3. CASE DeleterStep
  BY <1>3, DeleterLoses, LosesOrder
<1>4. CASE ServerStep
  BY <1>4, GetsOrder, AcquiresOrder, DispatchesOrder, ServerLoses, LosesOrder DEF ServerStep
<1> QED
  BY <1>1, <1>2, <1>3, <1>4, SendOrder, WorkerOrder DEF RcmNext

\* which the initial state has.
LEMMA RcmInitOrder == RcmInit => RcmInv /\ NextHasJob /\ DeleterHasPool
<1> SUFFICES ASSUME RcmInit PROVE RcmInv /\ NextHasJob /\ DeleterHasPool
  OBVIOUS
<1>1. /\ DOMAIN inbox = {} /\ sent = 0 /\ lastJob = 0 /\ server.pc = "gate" /\ server.msg.id = 0 /\ server.msg.job = 0
      /\ \A p \in Pools : DOMAIN ready[p] = {}
      /\ \A j \in Jobs : DOMAIN jobs[j].que = {} /\ ~jobs[j].listed /\ last[j] = 0
      /\ \A w \in Workers : worker[w].pc = "none" /\ worker[w].msg.job = 0
      /\ deleter.pc = "no"
  <2>1. DOMAIN <<>> = {}
    OBVIOUS
  <2> QED
    BY <2>1, NoMsgType DEF RcmInit, NoJob, Discrete
<1> QED
  BY <1>1 DEF RcmInv, InboxOrdered, QueOrdered, ReadyOrdered, WorkersOrdered, ReadyDistinct, ReadyNotHeld,
              HeldDistinct, EmptyIsIdle, JobsKnown, NextHasJob, DeleterHasPool, Holds, Earlier

RcmIInv == RcmTypeOK /\ NextHasJob /\ DeleterHasPool /\ RcmInv

\* RcmServer, for any pools, workers, jobs and messages: the invariant from which
\* the order of a job's messages follows.
THEOREM RcmInvariant == RcmSpec => []RcmIInv
<1>1. RcmInit => RcmIInv
  BY RcmInitType, RcmInitOrder DEF RcmIInv
<1>2. RcmIInv /\ [RcmNext]_rcmVars => RcmIInv'
  BY TypeKept, OrderKept, PlacesKept DEF RcmIInv
<1> QED
  BY <1>1, <1>2, PTL DEF RcmSpec

\* Every variable of RcmServer keeps its type.
THEOREM RcmTypeCorrect == RcmSpec => []RcmTypeOK
  BY RcmInvariant, PTL DEF RcmIInv

\* The order of the messages puts those that are executed in sequence.
LEMMA RcmInvSequence == RcmIInv => JobsInSequence
<1> SUFFICES ASSUME RcmIInv, NEW w \in Workers, worker[w].pc = "process", worker[w].msg.job # Discrete
             PROVE  /\ worker[w].msg.id > last[worker[w].msg.job]
                    /\ \A v \in Workers \ {w} : worker[v].pc = "process" => worker[v].msg.job # worker[w].msg.job
  BY DEF JobsInSequence, WorkerAt
<1>1. last[worker[w].msg.job] < worker[w].msg.id
  BY DEF RcmIInv, RcmInv, WorkersOrdered, ItsTurn, InJob
<1>2. last[worker[w].msg.job] \in Nat /\ worker[w].msg.id \in Nat
  BY MessageTypes, RcmMsgParts DEF RcmIInv, InJob
<1>3. \A v \in Workers \ {w} : worker[v].pc = "process" => worker[v].msg.job # worker[w].msg.job
  BY DEF RcmIInv, RcmInv, HeldDistinct, Holds, InJob
<1> QED
  BY <1>1, <1>2, <1>3

\* The messages of a job that go to the pools are executed one at a time and in the
\* order they were sent, whichever of its workers run (dispatch_P, workerThrFxn_P).
THEOREM JobsRunInSequence == RcmSpec => []JobsInSequence
  BY RcmInvariant, RcmInvSequence, PTL

-----------------------------------------------------------------------------
(* RcmSymbols.  Keys are given in falling order, one to each symbol (Given), *)
(* so a key that an index has is not given again (KeysGiven): as long as a   *)
(* slot has the key of an index that was held it has its function or has     *)
(* lost it (IndicesAgree), and so has the address that a call read before it *)
(* compared the key (CallAgrees).                                            *)

Fxns == Functions \cup {NoFunction}
Keys == 0 .. ResetKey
SlotStates  == [fxn : Fxns, name : Fxns, key : Keys]
IndexStates == [key : Keys, slot : Slots \cup {0}, fxn : Fxns, held : BOOLEAN]
OwnerStates == [pc : {"idle", "name", "key", "unname", "unkey"}, fxn : Fxns, slot : Slots \cup {0}]
CallStates  == [pc : {"idle", "index", "key", "call"}, index : IndexStates, addr : Fxns \cup {Unset}]
SymTypeOK ==
  /\ slots \in [Slots -> SlotStates] /\ key \in Keys /\ symOwner \in OwnerStates
  /\ added \in 0 .. MaxAdds /\ indices \subseteq IndexStates /\ call \in CallStates

Given == IF symOwner.pc \in {"name", "key"} THEN added - 1 ELSE added
KeysCount == Given \in Nat /\ key = IF Given = 0 THEN 0 ELSE ResetKey + 1 - Given
OwnerHasSlot ==
  /\ symOwner.pc # "idle" => symOwner.slot \in Slots
  /\ symOwner.pc \in {"name", "key"} =>
       slots[symOwner.slot].fxn = symOwner.fxn /\ slots[symOwner.slot].key = 0
  /\ symOwner.pc \in {"name", "key"} => symOwner.fxn # NoFunction
  /\ symOwner.pc = "name" => slots[symOwner.slot].name = NoFunction
  /\ symOwner.pc = "key" => slots[symOwner.slot].name = symOwner.fxn
  /\ symOwner.pc \in {"unname", "unkey"} => slots[symOwner.slot].fxn = NoFunction
  /\ symOwner.pc = "unkey" => slots[symOwner.slot].name = NoFunction
SlotsWhole ==
  \A s \in Slots : symOwner.pc = "idle" \/ s # symOwner.slot =>
    /\ slots[s].name \in {slots[s].fxn, NoFunction} /\ (slots[s].name = NoFunction => slots[s].key = 0)
WasGiven(k) == k # 0 => key # 0 /\ key <= k
KeysGiven ==
  /\ \A s \in Slots : WasGiven(slots[s].key)
  /\ \A i \in indices : WasGiven(i.key)
IndicesAgree ==
  \A i \in indices :
    /\ i.slot \in Slots /\ (i.held => i.key # 0)
    /\ i.held /\ slots[i.slot].key = i.key =>
         slots[i.slot].fxn \in {i.fxn, NoFunction} /\ slots[i.slot].name \in {i.fxn, NoFunction}
CallAgrees ==
  /\ call.pc \in {"index", "key"} => call.index.slot \in Slots
  /\ call.pc = "key" =>
    /\ WasGiven(call.index.key) /\ (call.index.held => call.index.key # 0)
    /\ call.index.held /\ slots[call.index.slot].key = call.index.key =>
         call.addr \in {call.index.fxn, NoFunction}

SymIInv ==
  /\ SymTypeOK /\ KeysCount
  /\ OwnerHasSlot /\ SlotsWhole
  /\ KeysGiven /\ IndicesAgree
  /\ CallAgrees /\ IndexNamesItsFunction

\* SymInit satisfies the invariant.
LEMMA SymInitInv == SymInit => SymIInv
<1> SUFFICES ASSUME SymInit PROVE SymIInv
  OBVIOUS
<1>1. SymTypeOK
  BY KeyAssumption DEF SymInit, SymTypeOK, FreeSlot, NoOwner, NoCall, NoIdx, SlotStates, IndexStates, OwnerStates,
                       CallStates, Keys, Fxns
<1>2. KeysCount /\ OwnerHasSlot /\ SlotsWhole /\ KeysGiven /\ IndicesAgree /\ CallAgrees /\ IndexNamesItsFunction
  BY DEF SymInit, KeysCount, Given, OwnerHasSlot, SlotsWhole, KeysGiven, WasGiven, IndicesAgree, CallAgrees,
         IndexNamesItsFunction, FreeSlot, NoOwner, NoCall, NoIdx
<1> QED
  BY <1>1, <1>2 DEF SymIInv

\* RcmServer_addSymbol: its slot is free, so its name and key are.
LEMMA AddInv == ASSUME SymIInv, NEW f \in Functions, Add(f) PROVE SymIInv'
<1> DEFINE s == CHOOSE s \in EmptySlots : \A t \in EmptySlots : s <= t
<1>1. s \in Slots /\ slots[s].fxn = NoFunction
  <2>1. EmptySlots \in SUBSET Nat /\ EmptySlots # {}
    BY KeyAssumption DEF Add, EmptySlots
  <2>2. \E n \in EmptySlots : \A t \in EmptySlots : n <= t
    BY <2>1, LeastExists
  <2>3. s \in EmptySlots
    BY <2>2
  <2> QED
    BY <2>3 DEF EmptySlots
<1>2. /\ symOwner.pc = "idle" /\ symOwner' = [pc |-> "name", fxn |-> f, slot |-> s]
      /\ slots' = [slots EXCEPT ![s].fxn = f] /\ added < MaxAdds /\ added' = added + 1
      /\ UNCHANGED <<key, indices, call>>
  BY DEF Add
<1> HIDE DEF s
<1>3. slots[s].name = NoFunction /\ slots[s].key = 0
  BY <1>1, <1>2 DEF SymIInv, SlotsWhole
<1>4. /\ slots'[s].fxn = f /\ slots'[s].name = NoFunction /\ slots'[s].key = 0
      /\ \A t \in Slots : t # s => slots'[t] = slots[t]
      /\ slots' \in [Slots -> SlotStates] /\ \A t \in Slots : slots'[t].key = slots[t].key
  BY <1>1, <1>2, <1>3 DEF SymIInv, SymTypeOK, SlotStates, Fxns
<1>5. SymTypeOK'
  BY <1>1, <1>2, <1>4, KeyAssumption DEF SymIInv, SymTypeOK, OwnerStates, Fxns
<1>6. KeysCount'
  BY <1>2, KeyAssumption DEF SymIInv, SymTypeOK, KeysCount, Given
<1>7. OwnerHasSlot' /\ SlotsWhole'
  BY <1>1, <1>2, <1>4, KeyAssumption DEF SymIInv, OwnerHasSlot, SlotsWhole, NoFunction
<1>8. KeysGiven'
  BY <1>2, <1>4 DEF SymIInv, KeysGiven, WasGiven
<1>9. IndicesAgree'
  BY <1>2, <1>4 DEF SymIInv, IndicesAgree
<1>10. CallAgrees' /\ IndexNamesItsFunction'
  BY <1>2, <1>4 DEF SymIInv, CallAgrees, WasGiven, IndexNamesItsFunction
<1> QED
  BY <1>5, <1>6, <1>7, <1>8, <1>9, <1>10 DEF SymIInv

\* Setting or clearing the name of the slot keeps the other slots and every key.
LEMMA NamesInv == ASSUME SymIInv, AddNames \/ RemoveUnnames PROVE SymIInv'
<1> DEFINE s == symOwner.slot
           n == IF symOwner.pc = "name" THEN symOwner.fxn ELSE NoFunction
           to == IF symOwner.pc = "name" THEN "key" ELSE "unkey"
<1>1. /\ symOwner.pc \in {"name", "unname"} /\ symOwner' = [symOwner EXCEPT !.pc = to]
      /\ slots' = [slots EXCEPT ![s].name = n] /\ UNCHANGED <<key, added, indices, call>>
  BY DEF AddNames, RemoveUnnames
<1>2. s \in Slots /\ n \in Fxns
  BY <1>1 DEF SymIInv, SymTypeOK, OwnerHasSlot, OwnerStates, Fxns
<1>3. /\ slots'[s].fxn = slots[s].fxn /\ slots'[s].name = n
      /\ \A t \in Slots : t # s => slots'[t] = slots[t]
      /\ slots' \in [Slots -> SlotStates] /\ \A t \in Slots : slots'[t].key = slots[t].key
      /\ symOwner' \in OwnerStates /\ symOwner'.slot = s /\ symOwner'.fxn = symOwner.fxn /\ symOwner'.pc = to
  BY <1>1, <1>2 DEF SymIInv, SymTypeOK, SlotStates, OwnerStates
<1>4. SymTypeOK'
  BY <1>1, <1>3 DEF SymIInv, SymTypeOK
<1>5. KeysCount'
  BY <1>1, <1>3 DEF SymIInv, KeysCount, Given
<1>6. OwnerHasSlot' /\ SlotsWhole'
  BY <1>1, <1>2, <1>3 DEF SymIInv, OwnerHasSlot, SlotsWhole
<1>7. KeysGiven'
  BY <1>1, <1>3 DEF SymIInv, KeysGiven, WasGiven
<1>8. IndicesAgree'
  <2> SUFFICES ASSUME NEW i \in indices, i.held, slots'[i.slot].key = i.key
               PROVE  slots'[i.slot].fxn \in {i.fxn, NoFunction} /\ slots'[i.slot].name \in {i.fxn, NoFunction}
    BY <1>1 DEF SymIInv, IndicesAgree
  <2>1. /\ i.slot \in Slots /\ slots[i.slot].key = i.key /\ i.key # 0
        /\ slots[i.slot].fxn \in {i.fxn, NoFunction} /\ slots[i.slot].name \in {i.fxn, NoFunction}
    BY <1>3 DEF SymIInv, IndicesAgree
  <2>2. i.slot = s => symOwner.pc = "unname"
    BY <1>1, <2>1 DEF SymIInv, OwnerHasSlot
  <2> QED
    BY <1>3, <2>1, <2>2
<1>9. CallAgrees' /\ IndexNamesItsFunction'
  BY <1>1, <1>3 DEF SymIInv, CallAgrees, WasGiven, IndexNamesItsFunction
<1> QED
  BY <1>4, <1>5, <1>6, <1>7, <1>8, <1>9 DEF SymIInv

\* The new key is lower than every key that was given, so no index has it.
LEMMA KeysInv == ASSUME SymIInv, AddKeys PROVE SymIInv'
<1> DEFINE s == symOwner.slot
           k == NextKey
           new == [key |-> k, slot |-> s, fxn |-> symOwner.fxn, held |-> TRUE]
<1>1. /\ symOwner.pc = "key" /\ symOwner' = NoOwner /\ key' = k
      /\ slots' = [slots EXCEPT ![s].key = k] /\ indices' = indices \cup {new} /\ UNCHANGED <<added, call>>
  BY DEF AddKeys
<1>2. k \in Keys /\ k \in Nat /\ k # 0 /\ (key # 0 => k < key) /\ key \in Nat /\ Given \in Nat /\ k = ResetKey - Given
  <2>1. added \in 0 .. MaxAdds /\ Given = added - 1 /\ Given \in Nat /\ Given < ResetKey
    BY <1>1, KeyAssumption DEF SymIInv, SymTypeOK, KeysCount, Given
  <2> QED
    BY <1>1, <2>1, KeyAssumption DEF SymIInv, KeysCount, NextKey, Keys
<1>3. s \in Slots /\ slots[s].fxn = symOwner.fxn /\ slots[s].name = symOwner.fxn /\ symOwner.fxn \in Fxns
  BY <1>1 DEF SymIInv, SymTypeOK, OwnerHasSlot, OwnerStates
<1>4. /\ slots'[s].fxn = symOwner.fxn /\ slots'[s].name = symOwner.fxn /\ slots'[s].key = k
      /\ \A t \in Slots : t # s => slots'[t] = slots[t]
      /\ slots' \in [Slots -> SlotStates]
  BY <1>1, <1>2, <1>3 DEF SymIInv, SymTypeOK, SlotStates
<1>5. symOwner'.pc = "idle" /\ symOwner' \in OwnerStates
  BY <1>1 DEF NoOwner, OwnerStates, Fxns
<1>6. new \in IndexStates /\ new.key = k /\ new.slot = s /\ new.fxn = symOwner.fxn
  BY <1>2, <1>3 DEF IndexStates
<1>a. \A t \in Slots : slots[t].key \in Nat
  BY DEF SymIInv, SymTypeOK, SlotStates, Keys
<1>b. \A i \in indices : i.key \in Nat /\ i.slot \in Slots
  BY DEF SymIInv, SymTypeOK, IndexStates, Keys, IndicesAgree
<1> HIDE DEF s, k, new
<1>7. SymTypeOK'
  BY <1>1, <1>2, <1>4, <1>5, <1>6 DEF SymIInv, SymTypeOK
<1>8. KeysCount'
  <2>1. Given' = Given + 1 /\ key' = ResetKey - Given
    BY <1>1, <1>2, <1>5 DEF SymIInv, SymTypeOK, Given
  <2> QED
    BY <1>2, <2>1, KeyAssumption DEF KeysCount
<1>9. OwnerHasSlot' /\ SlotsWhole'
  <2>1. ASSUME NEW t \in Slots
        PROVE  slots'[t].name \in {slots'[t].fxn, NoFunction} /\ (slots'[t].name = NoFunction => slots'[t].key = 0)
    <3>1. CASE t = s
      <4>1. symOwner.fxn # NoFunction
        BY <1>1 DEF SymIInv, OwnerHasSlot
      <4> QED
        BY <1>4, <3>1, <4>1
    <3>2. CASE t # s
      BY <1>1, <1>4, <3>2 DEF SymIInv, SlotsWhole, s
    <3> QED
      BY <3>1, <3>2
  <2> QED
    BY <1>5, <2>1 DEF OwnerHasSlot, SlotsWhole
<1>10. ASSUME NEW j \in Nat, WasGiven(j) PROVE WasGiven(j)' /\ j # k
  BY <1>1, <1>2, <1>10 DEF WasGiven
<1>11. KeysGiven'
  <2>1. ASSUME NEW t \in Slots PROVE WasGiven(slots[t].key)'
    <3>1. CASE t = s
      BY <1>1, <1>2, <1>4, <3>1 DEF WasGiven
    <3>2. CASE t # s
      BY <1>4, <1>10, <1>a, <3>2 DEF SymIInv, KeysGiven
    <3> QED
      BY <3>1, <3>2
  <2>2. ASSUME NEW i \in indices' PROVE key' # 0 /\ (i.key # 0 => key' <= i.key)
    <3>1. CASE i = new
      BY <1>1, <1>2, <1>6, <3>1
    <3>2. CASE i \in indices
      BY <1>1, <1>2, <1>10, <1>b, <3>2 DEF SymIInv, KeysGiven, WasGiven
    <3> QED
      BY <1>1, <3>1, <3>2
  <2> QED
    BY <2>1, <2>2 DEF KeysGiven, WasGiven
<1>12. IndicesAgree'
  <2> SUFFICES ASSUME NEW i \in indices'
               PROVE  /\ i.slot \in Slots
                      /\ i.held => i.key # 0
                      /\ i.held /\ slots'[i.slot].key = i.key =>
                           slots'[i.slot].fxn \in {i.fxn, NoFunction} /\ slots'[i.slot].name \in {i.fxn, NoFunction}
    BY DEF IndicesAgree
  <2>1. CASE i = new
    BY <1>2, <1>3, <1>4, <1>6, <2>1
  <2>2. CASE i \in indices
    <3>1. i.key # k
      BY <1>10, <1>b, <2>2 DEF SymIInv, KeysGiven
    <3>2. /\ i.slot \in Slots /\ (i.held => i.key # 0)
          /\ i.held /\ slots[i.slot].key = i.key =>
               slots[i.slot].fxn \in {i.fxn, NoFunction} /\ slots[i.slot].name \in {i.fxn, NoFunction}
      BY <2>2 DEF SymIInv, IndicesAgree
    <3>3. CASE i.slot = s
      BY <1>4, <3>1, <3>2, <3>3
    <3>4. CASE i.slot # s
      BY <1>4, <3>2, <3>4
    <3> QED
      BY <3>3, <3>4
  <2> QED
    BY <1>1, <2>1, <2>2
<1>13. CallAgrees' /\ IndexNamesItsFunction'
  <2>1. call.index.key \in Nat
    BY DEF SymIInv, SymTypeOK, CallStates, IndexStates, Keys
  <2>2. ASSUME call.pc = "key" PROVE WasGiven(call.index.key)' /\ call.index.key # k /\ call.index.slot \in Slots
    <3>1. WasGiven(call.index.key) /\ call.index.slot \in Slots
      BY <2>2 DEF SymIInv, CallAgrees
    <3>2. call'.index.key = call.index.key
      BY <1>1
    <3> QED
      BY <1>10, <2>1, <3>1, <3>2
  <2>3. CallAgrees'
    BY <1>1, <1>4, <2>2 DEF SymIInv, CallAgrees
  <2> QED
    BY <1>1, <2>3 DEF SymIInv, IndexNamesItsFunction
<1> QED
  BY <1>7, <1>8, <1>9, <1>11, <1>12, <1>13 DEF SymIInv

\* RcmServer_removeSymbol forgets the function first,
LEMMA RemoveInv == ASSUME SymIInv, NEW s \in Slots, RemoveSym(s) PROVE SymIInv'
<1>1. /\ symOwner.pc = "idle" /\ symOwner' = [pc |-> "unname", fxn |-> slots[s].name, slot |-> s]
      /\ slots' = [slots EXCEPT ![s].fxn = NoFunction] /\ UNCHANGED <<key, added, indices, call>>
  BY DEF RemoveSym
<1>2. /\ slots'[s].fxn = NoFunction /\ slots'[s].name = slots[s].name
      /\ \A t \in Slots : t # s => slots'[t] = slots[t]
      /\ slots' \in [Slots -> SlotStates] /\ \A t \in Slots : slots'[t].key = slots[t].key /\ slots'[t].name = slots[t].name
      /\ symOwner' \in OwnerStates
  BY <1>1 DEF SymIInv, SymTypeOK, SlotStates, OwnerStates, Fxns
<1>3. SymTypeOK'
  BY <1>1, <1>2 DEF SymIInv, SymTypeOK
<1>4. KeysCount'
  BY <1>1 DEF SymIInv, KeysCount, Given
<1>5. OwnerHasSlot' /\ SlotsWhole'
  BY <1>1, <1>2 DEF SymIInv, OwnerHasSlot, SlotsWhole
<1>6. KeysGiven'
  BY <1>1, <1>2 DEF SymIInv, KeysGiven, WasGiven
<1>7. IndicesAgree'
  BY <1>1, <1>2 DEF SymIInv, IndicesAgree
<1>8. CallAgrees' /\ IndexNamesItsFunction'
  BY <1>1, <1>2 DEF SymIInv, CallAgrees, WasGiven, IndexNamesItsFunction
<1> QED
  BY <1>3, <1>4, <1>5, <1>6, <1>7, <1>8 DEF SymIInv

\* and the key last.
LEMMA UnkeysInv == ASSUME SymIInv, RemoveUnkeys PROVE SymIInv'
<1> DEFINE s == symOwner.slot
<1>1. /\ symOwner.pc = "unkey" /\ symOwner' = NoOwner
      /\ slots' = [slots EXCEPT ![s].key = 0] /\ UNCHANGED <<key, added, indices, call>>
  BY DEF RemoveUnkeys
<1>2. s \in Slots /\ slots[s].fxn = NoFunction /\ slots[s].name = NoFunction
  BY <1>1 DEF SymIInv, OwnerHasSlot
<1>3. /\ slots'[s].fxn = NoFunction /\ slots'[s].name = NoFunction /\ slots'[s].key = 0
      /\ \A t \in Slots : t # s => slots'[t] = slots[t]
      /\ slots' \in [Slots -> SlotStates]
  BY <1>1, <1>2, KeyAssumption DEF SymIInv, SymTypeOK, SlotStates, Keys
<1>4. symOwner'.pc = "idle" /\ symOwner' \in OwnerStates
  BY <1>1 DEF NoOwner, OwnerStates, Fxns
<1> HIDE DEF s
<1>5. SymTypeOK'
  BY <1>1, <1>3, <1>4 DEF SymIInv, SymTypeOK
<1>6. KeysCount'
  BY <1>1, <1>4 DEF SymIInv, KeysCount, Given
<1>7. OwnerHasSlot' /\ SlotsWhole'
  BY <1>1, <1>3, <1>4 DEF SymIInv, OwnerHasSlot, SlotsWhole, s
<1>8. KeysGiven'
  BY <1>1, <1>3 DEF SymIInv, KeysGiven, WasGiven
<1>9. IndicesAgree'
  BY <1>1, <1>3 DEF SymIInv, IndicesAgree
<1>10. CallAgrees' /\ IndexNamesItsFunction'
  BY <1>1, <1>3 DEF SymIInv, CallAgrees, WasGiven, IndexNamesItsFunction
<1> QED
  BY <1>5, <1>6, <1>7, <1>8, <1>9, <1>10 DEF SymIInv

\* A name without memory leaves its function in the slot.
LEMMA AddFailsInv == ASSUME SymIInv, AddFails PROVE SymIInv'
<1>1. /\ symOwner.pc = "name" /\ symOwner' = NoOwner /\ added' = added - 1
      /\ UNCHANGED <<slots, key, indices, call>>
  BY DEF AddFails
<1>2. symOwner'.pc = "idle" /\ symOwner' \in OwnerStates
  BY <1>1 DEF NoOwner, OwnerStates, Fxns
<1>3. added \in 0 .. MaxAdds /\ Given = added - 1 /\ Given \in Nat /\ Given' = Given
  BY <1>1, <1>2 DEF SymIInv, SymTypeOK, KeysCount, Given
<1>4. SymTypeOK' /\ KeysCount'
  BY <1>1, <1>2, <1>3, KeyAssumption DEF SymIInv, SymTypeOK, KeysCount
<1>5. OwnerHasSlot' /\ SlotsWhole'
  BY <1>1, <1>2 DEF SymIInv, OwnerHasSlot, SlotsWhole
<1>6. KeysGiven' /\ IndicesAgree' /\ CallAgrees' /\ IndexNamesItsFunction'
  BY <1>1 DEF SymIInv, KeysGiven, WasGiven, IndicesAgree, CallAgrees, IndexNamesItsFunction
<1> QED
  BY <1>4, <1>5, <1>6 DEF SymIInv

\* The server compares the name,
LEMMA FindNameInv == ASSUME SymIInv, NEW s \in Slots, FindName(s) PROVE SymIInv'
<1>1. /\ call' = [pc |-> "index", index |-> [key |-> 0, slot |-> s, fxn |-> slots[s].name, held |-> FALSE],
                  addr |-> NoFunction]
      /\ UNCHANGED <<slots, key, symOwner, added, indices>>
  BY DEF FindName
<1>2. call' \in CallStates /\ call'.pc = "index" /\ call'.index.slot = s
  <2> DEFINE x == [key |-> 0, slot |-> s, fxn |-> slots[s].name, held |-> FALSE]
  <2>1. slots[s].name \in Fxns /\ 0 \in Keys /\ NoFunction \in Fxns
    <3>1. slots[s] \in SlotStates
      BY DEF SymIInv, SymTypeOK
    <3> QED
      BY <3>1, KeyAssumption DEF SlotStates, Fxns, Keys
  <2>2. x \in IndexStates /\ x.slot = s
    <3> DEFINE n == slots[s].name
    <3>1. n \in Fxns
      BY <2>1
    <3> HIDE DEF n
    <3>2. s \in Slots \cup {0}
      OBVIOUS
    <3> QED
      BY <2>1, <3>1, <3>2 DEF IndexStates, n
  <2>3. call' = [pc |-> "index", index |-> x, addr |-> NoFunction] /\ NoFunction \in Fxns \cup {Unset}
    BY <1>1, <2>1
  <2> HIDE DEF x
  <2> QED
    BY <2>2, <2>3 DEF CallStates
<1>3. KeysCount' /\ OwnerHasSlot' /\ SlotsWhole' /\ KeysGiven' /\ IndicesAgree'
  BY <1>1 DEF SymIInv, KeysCount, Given, OwnerHasSlot, SlotsWhole, KeysGiven, WasGiven, IndicesAgree
<1>4. CallAgrees' /\ IndexNamesItsFunction'
  BY <1>2 DEF CallAgrees, IndexNamesItsFunction
<1> QED
  BY <1>1, <1>2, <1>3, <1>4 DEF SymIInv, SymTypeOK

\* and reads the key: a slot that is still held has the function or lost it.
LEMMA FindKeyInv == ASSUME SymIInv, FindKey PROVE SymIInv'
<1> DEFINE s == call.index.slot
           f == call.index.fxn
           new == [call.index EXCEPT !.key = slots[s].key, !.held = slots[s].name = f /\ slots[s].key # 0]
<1>1. call.pc = "index" /\ indices' = indices \cup {new} /\ call' = NoCall /\ UNCHANGED <<slots, key, symOwner, added>>
  BY DEF FindKey
<1>2. s \in Slots /\ call.index \in IndexStates
  BY <1>1 DEF SymIInv, SymTypeOK, CallAgrees, CallStates
<1>3. /\ new \in IndexStates /\ new.key = slots[s].key /\ new.slot = s /\ new.fxn = f
      /\ new.held = (slots[s].name = f /\ slots[s].key # 0)
  BY <1>2 DEF SymIInv, SymTypeOK, SlotStates, IndexStates
<1>4. slots[s].key # 0 => slots[s].fxn \in {slots[s].name, NoFunction}
  BY <1>2 DEF SymIInv, OwnerHasSlot, SlotsWhole, SymTypeOK, OwnerStates
<1>5. call' \in CallStates /\ call'.pc = "idle"
  BY <1>1, KeyAssumption DEF NoCall, NoIdx, CallStates, IndexStates, Fxns, Keys
<1> HIDE DEF new, s, f
<1>6. SymTypeOK'
  BY <1>1, <1>3, <1>5 DEF SymIInv, SymTypeOK
<1>7. KeysCount' /\ OwnerHasSlot' /\ SlotsWhole'
  BY <1>1 DEF SymIInv, KeysCount, Given, OwnerHasSlot, SlotsWhole
<1>8. KeysGiven'
  BY <1>1, <1>2, <1>3 DEF SymIInv, KeysGiven, WasGiven
<1>9. IndicesAgree'
  BY <1>1, <1>2, <1>3, <1>4 DEF SymIInv, IndicesAgree
<1>10. CallAgrees' /\ IndexNamesItsFunction'
  BY <1>5 DEF CallAgrees, IndexNamesItsFunction
<1> QED
  BY <1>6, <1>7, <1>8, <1>9, <1>10 DEF SymIInv

\* A call reads the address, then compares the key: a key that agrees now had
\* the same function when the address was read.
LEMMA ServerInv ==
  ASSUME SymIInv, (\E i \in indices : ReadAddress(i)) \/ CompareKey \/ Called PROVE SymIInv'
<1>0. UNCHANGED <<slots, key, symOwner, added, indices>>
  BY DEF ReadAddress, CompareKey, Called
<1>1. KeysCount' /\ OwnerHasSlot' /\ SlotsWhole' /\ KeysGiven' /\ IndicesAgree'
  BY <1>0 DEF SymIInv, KeysCount, Given, OwnerHasSlot, SlotsWhole, KeysGiven, WasGiven, IndicesAgree
<1>2. CASE \E i \in indices : ReadAddress(i)
  <2>1. PICK i \in indices : call' = [pc |-> "key", index |-> i, addr |-> slots[i.slot].fxn]
    BY <1>2 DEF ReadAddress
  <2>2. i \in IndexStates /\ i.slot \in Slots /\ slots[i.slot].fxn \in Fxns
    BY DEF SymIInv, SymTypeOK, IndicesAgree, SlotStates
  <2>3. call' \in CallStates /\ call'.pc = "key" /\ call'.index = i /\ call'.addr = slots[i.slot].fxn
    BY <2>1, <2>2 DEF CallStates
  <2>4. CallAgrees' /\ IndexNamesItsFunction'
    BY <1>0, <2>2, <2>3 DEF SymIInv, KeysGiven, WasGiven, IndicesAgree, CallAgrees, IndexNamesItsFunction
  <2> QED
    BY <1>0, <1>1, <2>3, <2>4 DEF SymIInv, SymTypeOK
<1>3. CASE call' = NoCall
  <2>1. call' \in CallStates /\ call'.pc = "idle"
    BY <1>3, KeyAssumption DEF NoCall, NoIdx, CallStates, IndexStates, Fxns, Keys
  <2>2. CallAgrees' /\ IndexNamesItsFunction'
    BY <2>1 DEF CallAgrees, IndexNamesItsFunction
  <2> QED
    BY <1>0, <1>1, <2>1, <2>2 DEF SymIInv, SymTypeOK
<1>4. CASE CompareKey /\ call.index.key = slots[call.index.slot].key
  <2> DEFINE a == IF call.index.slot = 0 THEN Unset ELSE call.addr
  <2>1. call.pc = "key" /\ call' = [call EXCEPT !.pc = "call", !.addr = a]
    BY <1>4 DEF CompareKey
  <2>2. call' \in CallStates /\ call'.pc = "call" /\ call'.index = call.index /\ call'.addr = a
    BY <2>1 DEF SymIInv, SymTypeOK, CallStates
  <2>3. CallAgrees' /\ IndexNamesItsFunction'
    BY <1>4, <2>1, <2>2 DEF SymIInv, CallAgrees, IndexNamesItsFunction
  <2> QED
    BY <1>0, <1>1, <2>2, <2>3 DEF SymIInv, SymTypeOK
<1> QED
  BY <1>2, <1>3, <1>4 DEF CompareKey, Called

\* An index that addSymbol returned, or that a look-up gave whose slot kept its name
\* until its key was read, calls its function or none, whatever is added, removed and
\* looked up without the gate, as long as fewer symbols are added than there are keys
\* (RcmServer_addSymbol, RcmServer_removeSymbol, getSymIdx_P, getFxnAddr_P).
THEOREM IndicesKeepTheirFunctions == SymSpec => []IndexNamesItsFunction
<1>1. SymIInv /\ UNCHANGED symVars => SymIInv'
  BY DEF symVars, SymIInv, SymTypeOK, KeysCount, Given, OwnerHasSlot, SlotsWhole, KeysGiven, WasGiven, IndicesAgree,
         CallAgrees, IndexNamesItsFunction
<1>2. SymIInv /\ [SymNext]_symVars => SymIInv'
  BY <1>1, AddInv, NamesInv, AddFailsInv, KeysInv, RemoveInv, UnkeysInv, FindNameInv, FindKeyInv, ServerInv DEF SymNext
<1>3. SymIInv => IndexNamesItsFunction
  BY DEF SymIInv
<1> QED
  BY SymInitInv, <1>2, <1>3, PTL DEF SymSpec

-----------------------------------------------------------------------------
(* IpcPower, for any tasks and any number of calls and requests.  The      *)
(* semaphores exist from the first init until the task has ended; the task *)
(* heads for its end only when exit waits for it, and then the request     *)
(* that exit posted is still there for it to take; the counts of locks     *)
(* are the numbers of their holders, and nobody holds one after the last   *)
(* exit.                                                                   *)

TaskLives ==
    /\ created <=> task # "none"
    /\ created <=> curInit > 0 \/ exiting
    /\ exiting => curInit = 0
    /\ task \in {"end", "ended"} => exiting
    /\ exiting /\ task = "pend" => semSuspend > 0
    /\ semExit = IF task = "ended" THEN 1 ELSE 0

CountOf(count, held) == IsFiniteSet(held) /\ count = Cardinality(held)

LocksCounted ==
    /\ CountOf(hibLock, hibHeld) /\ CountOf(refWakeLockCnt, wakeHeld)
    /\ curInit = 0 => hibHeld = {} /\ wakeHeld = {}
    /\ wakeHeld # {} => ~sleep

PowerTypeOK ==
    /\ curInit \in Nat /\ semSuspend \in Nat
    /\ created \in BOOLEAN /\ exiting \in BOOLEAN

PowerInvariant == PowerTypeOK /\ TaskLives /\ LocksCounted

\* Nobody holds a lock.
LEMMA NoneCounted == CountOf(0, {})
BY FS_EmptySet DEF CountOf

\* A holder that comes is counted (HibernateLock, WakeLock).
LEMMA OneMore ==
  ASSUME NEW count, NEW held, NEW t, CountOf(count, held), t \notin held
  PROVE  CountOf(count + 1, held \cup {t})
BY FS_AddElement DEF CountOf

\* A holder that goes is counted, and the count reaches 0 with the last one
\* (HibernateUnlock, WakeUnlock).
LEMMA OneLess ==
  ASSUME NEW count, NEW held, NEW t, CountOf(count, held), t \in held
  PROVE  /\ count > 0
         /\ CountOf(count - 1, held \ {t})
         /\ held \ {t} # {} => count - 1 # 0
<1>1. count \in Nat
  BY FS_CardinalityType DEF CountOf
<1>2. count # 0
  BY FS_EmptySet DEF CountOf
<1>3. IsFiniteSet(held \ {t}) /\ Cardinality(held \ {t}) = count - 1
  BY FS_RemoveElement DEF CountOf
<1>4. held \ {t} # {} => count - 1 # 0
  BY <1>3, FS_EmptySet
<1> QED
  BY <1>1, <1>2, <1>3, <1>4 DEF CountOf

\* init and exit (IpcPower_init, IpcPower_exit).
LEMMA LifeInv ==
  ASSUME PowerInvariant, InitFirst \/ InitAgain \/ Exit \/ ExitDelete
  PROVE  PowerInvariant'
<1> USE DEF PowerInvariant
<1>1. CASE InitFirst
  <2>1. curInit' \in Nat /\ semSuspend' \in Nat /\ PowerTypeOK' /\ TaskLives'
    BY <1>1 DEF InitFirst, PowerTypeOK, TaskLives
  <2>2. hibHeld = {} /\ wakeHeld = {}
    BY <1>1 DEF InitFirst, LocksCounted
  <2> QED
    BY <1>1, <2>1, <2>2, NoneCounted DEF InitFirst, LocksCounted
<1>2. CASE InitAgain
  BY <1>2 DEF InitAgain, PowerTypeOK, TaskLives, LocksCounted, sems, locks
<1>3. CASE Exit
  <2>1. PowerTypeOK' /\ TaskLives'
    BY <1>3 DEF Exit, PowerTypeOK, TaskLives, locks
  <2>2. LocksCounted'
    BY <1>3 DEF Exit, PowerTypeOK, LocksCounted, locks
  <2> QED
    BY <2>1, <2>2
<1>4. CASE ExitDelete
  <2>1. PowerTypeOK' /\ LocksCounted'
    BY <1>4 DEF ExitDelete, PowerTypeOK, LocksCounted, locks
  <2>2. TaskLives'
    BY <1>4 DEF ExitDelete, PowerTypeOK, TaskLives
  <2> QED
    BY <2>1, <2>2
<1> QED
  BY <1>1, <1>2, <1>3, <1>4

\* The host's requests and the suspend task (VirtQueue_isr, suspendTaskFxn).
LEMMA SuspendInv ==
  ASSUME PowerInvariant, Suspend \/ TaskStep PROVE PowerInvariant'
<1>1. LocksCounted'
  BY DEF PowerInvariant, Suspend, TaskStep, TaskLoop, TaskPend, TaskGoto, PreSuspend, Hibernate, PostResume, TaskEnd,
         life, locks, LocksCounted
<1>2. PowerTypeOK' /\ TaskLives'
  <2>1. CASE Suspend
    BY <2>1 DEF PowerInvariant, PowerTypeOK, TaskLives, Suspend, life
  <2>2. CASE TaskLoop
    BY <2>2 DEF PowerInvariant, PowerTypeOK, TaskLives, TaskLoop, life, sems
  <2>3. CASE TaskPend
    BY <2>3 DEF PowerInvariant, PowerTypeOK, TaskLives, TaskPend, life
  <2>4. CASE PreSuspend \/ Hibernate \/ PostResume \/ TaskEnd
    BY <2>4 DEF PowerInvariant, PowerTypeOK, TaskLives, PreSuspend, Hibernate, PostResume, TaskEnd, TaskGoto, life, sems
  <2> QED
    BY <2>1, <2>2, <2>3, <2>4 DEF TaskStep
<1> QED
  BY <1>1, <1>2 DEF PowerInvariant

\* The locks (IpcPower_hibernateLock to IpcPower_wakeUnlock).
LEMMA LockInv ==
  ASSUME PowerInvariant, NEW t \in Tasks,
         HibernateLock(t) \/ HibernateUnlock(t) \/ WakeLock(t) \/ WakeUnlock(t)
  PROVE  PowerInvariant'
<1>1. PowerTypeOK' /\ TaskLives'
  BY DEF PowerInvariant, PowerTypeOK, TaskLives, HibernateLock, HibernateUnlock, WakeLock, WakeUnlock, life, sems
<1>2. CASE HibernateLock(t)
  <2>1. CountOf(hibLock', hibHeld')
    BY <1>2, OneMore DEF PowerInvariant, LocksCounted, HibernateLock
  <2> QED
    BY <1>1, <1>2, <2>1 DEF PowerInvariant, PowerTypeOK, LocksCounted, HibernateLock, life
<1>3. CASE HibernateUnlock(t)
  <2>1. CountOf(hibLock', hibHeld')
    BY <1>3, OneLess DEF PowerInvariant, LocksCounted, HibernateUnlock
  <2> QED
    BY <1>1, <1>3, <2>1 DEF PowerInvariant, LocksCounted, HibernateUnlock, life
<1>4. CASE WakeLock(t)
  <2>1. CountOf(refWakeLockCnt', wakeHeld')
    BY <1>4, OneMore DEF PowerInvariant, LocksCounted, WakeLock
  <2> QED
    BY <1>1, <1>4, <2>1 DEF PowerInvariant, PowerTypeOK, LocksCounted, WakeLock, life
<1>5. CASE WakeUnlock(t)
  <2>1. /\ refWakeLockCnt' = refWakeLockCnt - 1
        /\ CountOf(refWakeLockCnt', wakeHeld')
        /\ wakeHeld' # {} => refWakeLockCnt' # 0
    BY <1>5, OneLess DEF PowerInvariant, LocksCounted, WakeUnlock
  <2>2. wakeHeld # {} /\ ~sleep
    BY <1>5 DEF PowerInvariant, LocksCounted, WakeUnlock
  <2>3. wakeHeld' # {} => ~sleep'
    BY <1>5, <2>1, <2>2 DEF WakeUnlock
  <2> QED
    BY <1>1, <1>5, <2>1, <2>3 DEF PowerInvariant, LocksCounted, WakeUnlock, life
<1> QED
  BY <1>2, <1>3, <1>4, <1>5

\* The suspend task has its semaphores while it can use them, it never waits
\* for exit while exit waits for it, and the locks hold (IpcPower_init,
\* IpcPower_exit, suspendTaskFxn, the lock functions, VirtQueue_isr).
THEOREM PowerHolds == PowerSpec => []PowerIsSafe
<1>1. PowerInit => PowerInvariant
  <2>1. PowerInit => PowerTypeOK
    <3>1. PowerInit => curInit \in Nat /\ semSuspend \in Nat
      BY DEF PowerInit
    <3> QED
      BY <3>1, Zenon DEF PowerInit, PowerTypeOK
  <2>2. PowerInit => ~(curInit > 0) /\ task \notin {"end", "ended", "pend"}
    BY DEF PowerInit
  <2>3. PowerInit => TaskLives
    BY <2>2, Zenon DEF PowerInit, TaskLives
  <2>4. PowerInit => LocksCounted
    BY NoneCounted DEF PowerInit, LocksCounted
  <2> QED
    BY <2>1, <2>3, <2>4 DEF PowerInvariant
<1>2. PowerInvariant /\ UNCHANGED powerVars => PowerInvariant'
  BY DEF PowerInvariant, PowerTypeOK, TaskLives, LocksCounted, powerVars, life, sems, locks
<1>3. PowerInvariant /\ [PowerNext]_powerVars => PowerInvariant'
  BY <1>2, LifeInv, SuspendInv, LockInv DEF PowerNext, Hibernation, HibernationForce
<1>4. PowerInvariant => PowerIsSafe
  <2>1. PowerInvariant /\ hibHeld # {} => hibLock # 0
    BY FS_EmptySet DEF PowerInvariant, LocksCounted, CountOf
  <2> QED
    BY <2>1 DEF PowerInvariant, PowerTypeOK, TaskLives, LocksCounted, PowerIsSafe, TaskHasSemaphores, LocksHold,
            CanHibernate
<1> QED
  BY <1>1, <1>3, <1>4, PTL DEF PowerSpec

-----------------------------------------------------------------------------
(* Notify, for any threads, callbacks, listeners and events.  Registering   *)
(* and unregistering hold the module gate throughout, also when an earlier  *)
(* call of the same thread has left it entered, so one thread at most works *)
(* on an event.  Of an event nobody works on, the list of listeners, the    *)
(* callback and the driver agree; where they do not, the thread in the gate *)
(* is at a point that says what is still to be done.                        *)

InModule     == {"alloc", "single", "driverRegister", "find", "unSingle", "unSingleClear", "unLast"}
NotifyPoints == {"idle", "walk"} \cup InModule
HalfDone     == {"single", "driverRegister", "unSingleClear", "unLast"}

NotifyTypes ==
  /\ local \in BOOLEAN
  /\ callback \in [Events -> Fns \cup {NoFxn, ExecMany}]
  /\ eventList \in [Events -> Seq(Listeners)]
  /\ fnOf \in [Listeners -> Fns \cup {NoFxn}]
  /\ regEvents \subseteq Events
  /\ notifyPc \in [NotifyThreads -> NotifyPoints]
  /\ args \in [NotifyThreads -> Args \cup {NoArgs}]
  /\ \A t \in NotifyThreads : notifyPc[t] # "idle" => args[t] \in Args
  /\ modOwner \in NotifyThreads \cup {NoOne}
ModuleHeld == \A t \in NotifyThreads : notifyPc[t] \in InModule => modOwner = t

\* Whom a thread works for: on an event with listeners a caller's function is
\* looked for or execMany is registered, on another the function is the callback.
ManyCall(t)   == Event(t) \in ManyEvents /\ Fn(t) \in Fns
ForListener(t) == Event(t) \in ManyEvents /\ Fn(t) = ExecMany
PurposeOf(t) ==
  /\ notifyPc[t] \in {"alloc", "find", "unLast"} => ManyCall(t)
  /\ notifyPc[t] \in {"single", "driverRegister"} =>
       ForListener(t) \/ (Event(t) \in SingleEvents /\ Fn(t) \in Fns)
  /\ notifyPc[t] \in {"unSingle", "unSingleClear"} =>
       ManyCall(t) \/ (Event(t) \in SingleEvents /\ Fn(t) = NoFxn)
\* What it has found and done.
AtEvent(t) ==
  /\ notifyPc[t] \in {"single", "unLast"} /\ Event(t) \in ManyEvents =>
       callback[Event(t)] = NoFxn /\ Event(t) \notin regEvents /\ Len(eventList[Event(t)]) = 1
  /\ notifyPc[t] = "driverRegister" =>
       ~local /\ callback[Event(t)] = Fn(t) /\ (Event(t) \in ManyEvents => Len(eventList[Event(t)]) = 1)
  /\ notifyPc[t] \in {"unSingle", "unSingleClear"} /\ Event(t) \in ManyEvents =>
       callback[Event(t)] = ExecMany /\ Len(eventList[Event(t)]) = 1
  /\ notifyPc[t] = "unSingleClear" => Event(t) \notin regEvents
  /\ notifyPc[t] \in {"unSingle", "unSingleClear", "unLast"} /\ Event(t) \in ManyEvents =>
       Matching(Event(t), Fn(t)) # {}

WorkedOn(e) == \E t \in NotifyThreads : notifyPc[t] \in HalfDone /\ Event(t) = e
Agree(e) ==
  /\ eventList[e] # <<>> <=> callback[e] = ExecMany
  /\ ~local => (e \in regEvents <=> callback[e] # NoFxn)
ManyAgree == \A e \in ManyEvents : callback[e] \in {NoFxn, ExecMany} /\ (WorkedOn(e) \/ Agree(e))
SingleKept ==
  \A e \in SingleEvents :
    eventList[e] = <<>> /\ callback[e] # ExecMany /\ (e \in regEvents => callback[e] # NoFxn)
NotifyIInv ==
  /\ NotifyTypes /\ ModuleHeld /\ NoListenerLeaks /\ ManyAgree /\ SingleKept
  /\ \A t \in NotifyThreads : PurposeOf(t) /\ AtEvent(t)
  /\ local => regEvents = {}

\* A set of numbers has its minimum.
LEMMA MinIsIn ==
  ASSUME NEW S \in SUBSET Nat, S # {} PROVE Min(S) \in S
<1>1. PICK n \in S : \A m \in S : ~(<<m, n>> \in OpToRel(<, Nat))
  BY NatLessThanWellFounded, WFMin
<1>2. OpToRel(<, Nat) = {ss \in Nat \X Nat : ss[1] < ss[2]}
  BY Zenon DEF OpToRel
<1>3. \A m \in S : ~(m < n)
  BY <1>1, <1>2
<1>4. \A m \in S : n =< m
  BY <1>3
<1> QED
  BY <1>4 DEF Min

\* What is left of a list when one of its elements is removed.
LEMMA RemoveAtIs ==
  ASSUME NEW S, NEW seq \in Seq(S), NEW k \in 1 .. Len(seq)
  PROVE  /\ RemoveAt(seq, k) \in Seq(S)
         /\ Len(RemoveAt(seq, k)) = Len(seq) - 1
         /\ \A i \in 1 .. Len(seq) - 1 :
              RemoveAt(seq, k)[i] = IF i < k THEN seq[i] ELSE seq[i + 1]
<1> DEFINE l == SubSeq(seq, 1, k - 1)
           r == SubSeq(seq, k + 1, Len(seq))
<1>0. k \in Nat /\ Len(seq) \in Nat /\ 1 =< k /\ k =< Len(seq) /\ \A i \in 1 .. Len(seq) : seq[i] \in S
  BY ElementOfSeq, LenProperties
<1>1. l \in Seq(S) /\ Len(l) = k - 1 /\ \A i \in 1 .. k - 1 : l[i] = seq[i]
  <2>1. \A i \in 1 .. k - 1 : seq[i] \in S
    BY <1>0
  <2>2. /\ l \in Seq(S)
        /\ Len(l) = IF 1 <= k - 1 THEN k - 1 - 1 + 1 ELSE 0
        /\ \A i \in 1 .. k - 1 - 1 + 1 : l[i] = seq[1 + i - 1]
    BY <1>0, <2>1, SubSeqProperties
  <2> HIDE DEF l
  <2> QED
    BY <1>0, <2>2
<1>2. r \in Seq(S) /\ Len(r) = Len(seq) - k /\ \A i \in 1 .. Len(seq) - k : r[i] = seq[k + i]
  <2>1. \A i \in k + 1 .. Len(seq) : seq[i] \in S
    BY <1>0
  <2>2. /\ r \in Seq(S)
        /\ Len(r) = IF k + 1 <= Len(seq) THEN Len(seq) - (k + 1) + 1 ELSE 0
        /\ \A i \in 1 .. Len(seq) - (k + 1) + 1 : r[i] = seq[k + 1 + i - 1]
    BY <1>0, <2>1, SubSeqProperties
  <2> HIDE DEF r
  <2> QED
    BY <1>0, <2>2
<1>3. RemoveAt(seq, k) = l \o r
  BY DEF RemoveAt
<1> HIDE DEF l, r
<1>4. /\ l \o r \in Seq(S)
      /\ Len(l \o r) = Len(l) + Len(r)
      /\ \A i \in 1 .. Len(l) + Len(r) : (l \o r)[i] = IF i <= Len(l) THEN l[i] ELSE r[i - Len(l)]
  BY <1>1, <1>2, ConcatProperties
<1>5. RemoveAt(seq, k) \in Seq(S) /\ Len(RemoveAt(seq, k)) = Len(seq) - 1
  BY <1>0, <1>1, <1>2, <1>3, <1>4
<1>6. ASSUME NEW i \in 1 .. Len(seq) - 1
      PROVE  RemoveAt(seq, k)[i] = IF i < k THEN seq[i] ELSE seq[i + 1]
  <2>0. (l \o r)[i] = IF i <= k - 1 THEN l[i] ELSE r[i - (k - 1)]
    BY <1>0, <1>1, <1>2, <1>4
  <2>1. CASE i < k
    <3>1. i \in 1 .. k - 1 /\ i <= k - 1
      BY <1>0, <1>6, <2>1
    <3>2. l[i] = seq[i]
      BY <1>1, <3>1
    <3> QED
      BY <1>3, <2>0, <2>1, <3>1, <3>2
  <2>2. CASE ~(i < k)
    <3>1. i - (k - 1) \in 1 .. Len(seq) - k /\ k + (i - (k - 1)) = i + 1 /\ ~(i <= k - 1)
      BY <1>0, <1>6, <2>2
    <3>2. r[i - (k - 1)] = seq[i + 1]
      BY <1>2, <3>1
    <3> QED
      BY <1>3, <2>0, <2>2, <3>1, <3>2
  <2> QED
    BY <2>1, <2>2
<1> QED
  BY <1>5, <1>6

\* Nothing is registered at first.
LEMMA NotifyInitInv == NotifyInit => NotifyIInv
<1> SUFFICES ASSUME NotifyInit PROVE NotifyIInv
  OBVIOUS
<1>1. NotifyTypes /\ ModuleHeld
  <2>1. eventList \in [Events -> Seq(Listeners)]
    BY EmptySeq DEF NotifyInit
  <2>2. /\ notifyPc \in [NotifyThreads -> NotifyPoints] /\ args \in [NotifyThreads -> Args \cup {NoArgs}]
        /\ \A t \in NotifyThreads : notifyPc[t] = "idle"
    BY DEF NotifyInit, NotifyPoints
  <2> QED
    BY <2>1, <2>2 DEF NotifyInit, NotifyTypes, ModuleHeld, InModule
<1>2. NoListenerLeaks
  BY DEF NotifyInit, NoListenerLeaks, Events
<1>3. ManyAgree /\ SingleKept
  BY NotifyAssumption DEF NotifyInit, ManyAgree, SingleKept, Agree, Events, NoFxn, ExecMany
<1>4. \A t \in NotifyThreads : PurposeOf(t) /\ AtEvent(t)
  BY DEF NotifyInit, PurposeOf, AtEvent
<1> QED
  BY <1>1, <1>2, <1>3, <1>4 DEF NotifyInit, NotifyIInv

\* A thread that is in the module gate, or may enter it, is the only one at work.
LEMMA Alone ==
  ASSUME NotifyIInv, NEW t \in NotifyThreads, notifyPc[t] \in InModule \/ CanEnter(t)
  PROVE  \A u \in NotifyThreads : u # t => notifyPc[u] \notin InModule
BY NotifyAssumption DEF NotifyIInv, ModuleHeld, CanEnter, NoOne

\* A list of listeners has a length, and is empty when that is 0.
LEMMA ListOf ==
  ASSUME NotifyTypes, NEW e \in Events
  PROVE  /\ eventList[e] \in Seq(Listeners) /\ Len(eventList[e]) \in Nat
         /\ DOMAIN eventList[e] = 1 .. Len(eventList[e])
         /\ eventList[e] = <<>> <=> Len(eventList[e]) = 0
         /\ \A i \in DOMAIN eventList[e] : eventList[e][i] \in Listeners
<1>1. eventList[e] \in Seq(Listeners)
  BY DEF NotifyTypes
<1> QED
  BY <1>1, LenProperties, EmptySeq, ElementOfSeq

\* A list of one listener is not empty.
LEMMA OneListed ==
  ASSUME NotifyTypes, NEW e \in Events, Len(eventList[e]) = 1 PROVE eventList[e] # <<>>
BY EmptySeq

\* A call enters the module gate and has touched nothing yet.
LEMMA CallInv ==
  ASSUME NotifyIInv, NEW t \in NotifyThreads, NEW e \in Events, NEW f \in Fns \cup {NoFxn},
         NEW to \in {"alloc", "single", "find", "unSingle"},
         EnterModule(t), Call(t, to, e, f), UNCHANGED <<object, driver, local>>,
         to \in {"alloc", "find"} => e \in ManyEvents /\ f \in Fns,
         to = "single" => e \in SingleEvents /\ f \in Fns,
         to = "unSingle" => e \in SingleEvents /\ f = NoFxn
  PROVE  NotifyIInv'
<1>1. \A u \in NotifyThreads : u # t => notifyPc[u] \notin InModule
  BY Alone DEF EnterModule
<1>2. /\ notifyPc' = [notifyPc EXCEPT ![t] = to]
      /\ args' = [args EXCEPT ![t] = [event |-> e, fn |-> f]]
      /\ notifyPc[t] = "idle" /\ modOwner' = t
  BY DEF Call, NotifyGoto, EnterModule
<1>3. UNCHANGED <<callback, eventList, fnOf, regEvents, local>>
  BY DEF object, driver
<1>4. NotifyTypes'
  BY <1>2, <1>3 DEF NotifyIInv, NotifyTypes, NotifyPoints, InModule, Args
<1>5. ModuleHeld'
  BY <1>1, <1>2, <1>4 DEF NotifyIInv, ModuleHeld, NotifyTypes
<1>6. NoListenerLeaks' /\ SingleKept' /\ (local => regEvents = {})'
  BY <1>3 DEF NotifyIInv, NoListenerLeaks, SingleKept
<1>7. \A u \in NotifyThreads : u # t => notifyPc'[u] \notin InModule
  BY <1>1, <1>2 DEF NotifyIInv, NotifyTypes
<1>8. notifyPc'[t] = to /\ args'[t] = [event |-> e, fn |-> f]
  BY <1>2 DEF NotifyIInv, NotifyTypes
<1>9. \A u \in NotifyThreads : PurposeOf(u)' /\ AtEvent(u)'
  <2>1. PurposeOf(t)' /\ AtEvent(t)'
    <3>1. Event(t)' = e /\ Fn(t)' = f
      BY <1>8 DEF Event, Fn
    <3>2. PurposeOf(t)'
      BY <1>8, <3>1 DEF PurposeOf, ManyCall
    <3>3. AtEvent(t)'
      BY <1>8, <3>1, NotifyAssumption DEF AtEvent
    <3> QED
      BY <3>2, <3>3
  <2>2. \A u \in NotifyThreads : u # t => PurposeOf(u)' /\ AtEvent(u)'
    BY <1>7 DEF PurposeOf, AtEvent, InModule
  <2> QED
    BY <2>1, <2>2
<1>10. \A d \in ManyEvents : callback[d] \in {NoFxn, ExecMany} /\ Agree(d)
  BY <1>1, <1>2 DEF NotifyIInv, ManyAgree, WorkedOn, HalfDone, InModule
<1>11. ManyAgree'
  BY <1>10, <1>3 DEF ManyAgree, Agree
<1> QED
  BY <1>4, <1>5, <1>6, <1>9, <1>11 DEF NotifyIInv

\* A step of the thread in the module gate, to another point in it or out of it.
LEMMA StepInv ==
  ASSUME NotifyIInv, NEW t \in NotifyThreads, notifyPc[t] \in InModule,
         NEW to \in {"idle"} \cup InModule, NEW a \in Args \cup {NoArgs}, to # "idle" => a \in Args,
         notifyPc' = [notifyPc EXCEPT ![t] = to], args' = [args EXCEPT ![t] = a],
         modOwner' \in NotifyThreads \cup {NoOne}, to \in InModule => modOwner' = modOwner,
         callback' \in [Events -> Fns \cup {NoFxn, ExecMany}],
         eventList' \in [Events -> Seq(Listeners)], fnOf' \in [Listeners -> Fns \cup {NoFxn}],
         regEvents' \subseteq Events, local' = local, local => regEvents' = {},
         NoListenerLeaks', SingleKept', to \in InModule => PurposeOf(t)' /\ AtEvent(t)',
         \A d \in ManyEvents : d # Event(t) =>
            /\ callback'[d] = callback[d] /\ eventList'[d] = eventList[d]
            /\ d \in regEvents' <=> d \in regEvents,
         \A d \in ManyEvents : d = Event(t) =>
            /\ callback'[d] \in {NoFxn, ExecMany}
            /\ (to \in HalfDone /\ a \in Args /\ a.event = d) \/ Agree(d)'
  PROVE  NotifyIInv'
<1>1. \A u \in NotifyThreads : u # t => notifyPc[u] \notin InModule /\ notifyPc'[u] = notifyPc[u]
  BY Alone DEF NotifyIInv, NotifyTypes
<1>2. notifyPc'[t] = to /\ args'[t] = a
  BY DEF NotifyIInv, NotifyTypes
<1>3. NotifyTypes'
  BY DEF NotifyIInv, NotifyTypes, NotifyPoints
<1>4. ModuleHeld'
  BY <1>1, <1>2 DEF NotifyIInv, ModuleHeld
<1>5. \A u \in NotifyThreads : PurposeOf(u)' /\ AtEvent(u)'
  <2>1. PurposeOf(t)' /\ AtEvent(t)'
    <3>1. CASE to = "idle"
      BY <1>2, <3>1 DEF PurposeOf, AtEvent
    <3> QED
      BY <3>1
  <2>2. \A u \in NotifyThreads : u # t => PurposeOf(u)' /\ AtEvent(u)'
    BY <1>1 DEF PurposeOf, AtEvent, InModule
  <2> QED
    BY <2>1, <2>2
<1>6. ManyAgree'
  <2> SUFFICES ASSUME NEW d \in ManyEvents
               PROVE  callback'[d] \in {NoFxn, ExecMany} /\ (WorkedOn(d)' \/ Agree(d)')
    BY DEF ManyAgree
  <2>1. CASE d = Event(t)
    <3>1. CASE Agree(d)'
      BY <2>1, <3>1
    <3>2. CASE to \in HalfDone /\ a \in Args /\ a.event = d
      <4>1. notifyPc'[t] \in HalfDone /\ Event(t)' = d
        BY <1>2, <2>1, <3>2 DEF Event
      <4> QED
        BY <2>1, <4>1 DEF WorkedOn
    <3> QED
      BY <2>1, <3>1, <3>2
  <2>2. CASE d # Event(t)
    <3>1. callback[d] \in {NoFxn, ExecMany} /\ Agree(d)
      BY <1>1, <2>2 DEF NotifyIInv, ManyAgree, WorkedOn, HalfDone, InModule
    <3> QED
      BY <2>2, <3>1 DEF Agree
  <2> QED
    BY <2>1, <2>2
<1> QED
  BY <1>3, <1>4, <1>5, <1>6 DEF NotifyIInv

\* An event of which the thread in the gate has not begun to change anything.
LEMMA NotBegun ==
  ASSUME NotifyIInv, NEW t \in NotifyThreads, notifyPc[t] \in InModule,
         NEW e \in ManyEvents, notifyPc[t] \in HalfDone => Event(t) # e
  PROVE  callback[e] \in {NoFxn, ExecMany} /\ Agree(e)
BY Alone DEF NotifyIInv, ManyAgree, WorkedOn, HalfDone, InModule

\* A listener that is freed as it leaves its list: the others are where they were.
LEMMA ReleaseKeeps ==
  ASSUME NotifyIInv, NEW e \in Events, NEW i \in DOMAIN eventList[e], Release(e, i)
  PROVE  /\ eventList' \in [Events -> Seq(Listeners)] /\ fnOf' \in [Listeners -> Fns \cup {NoFxn}]
         /\ Len(eventList'[e]) = Len(eventList[e]) - 1
         /\ \A d \in Events : d # e => eventList'[d] = eventList[d]
         /\ NoListenerLeaks'
<1> DEFINE q == eventList[e]
           from(k) == IF k < i THEN k ELSE k + 1
           src(d, k) == IF d = e THEN from(k) ELSE k
<1>0. NotifyTypes /\ NoListenerLeaks
  BY DEF NotifyIInv
<1>1. q \in Seq(Listeners) /\ Len(q) \in Nat /\ DOMAIN q = 1 .. Len(q) /\ i \in 1 .. Len(q) /\ q[i] \in Listeners
  BY SMTT(30), <1>0, ListOf
<1>2. /\ RemoveAt(q, i) \in Seq(Listeners) /\ Len(RemoveAt(q, i)) = Len(q) - 1
      /\ \A k \in 1 .. Len(q) - 1 : RemoveAt(q, i)[k] = q[from(k)]
  <2>1. \A k \in 1 .. Len(q) - 1 : RemoveAt(q, i)[k] = IF k < i THEN q[k] ELSE q[k + 1]
    BY <1>1, RemoveAtIs
  <2> HIDE DEF q
  <2> QED
    BY <1>1, <2>1, RemoveAtIs
<1>3. DOMAIN RemoveAt(q, i) = 1 .. Len(q) - 1
  BY <1>2, LenProperties
<1>4. eventList' = [eventList EXCEPT ![e] = RemoveAt(q, i)] /\ fnOf' = [fnOf EXCEPT ![q[i]] = NoFxn]
  BY DEF Release
<1>5. eventList'[e] = RemoveAt(q, i) /\ \A d \in Events : d # e => eventList'[d] = eventList[d]
  BY <1>0, <1>4 DEF NotifyTypes
<1>6. eventList' \in [Events -> Seq(Listeners)] /\ fnOf' \in [Listeners -> Fns \cup {NoFxn}]
  BY <1>0, <1>1, <1>2, <1>4 DEF NotifyTypes
<1>7. \A l \in Listeners : fnOf'[l] = IF l = q[i] THEN NoFxn ELSE fnOf[l]
  BY <1>0, <1>4 DEF NotifyTypes
<1>8. \A d \in Events : \A k \in DOMAIN eventList'[d] :
        /\ src(d, k) \in DOMAIN eventList[d] /\ eventList'[d][k] = eventList[d][src(d, k)]
        /\ ~(d = e /\ src(d, k) = i)
  <2> SUFFICES ASSUME NEW d \in Events, NEW k \in DOMAIN eventList'[d]
               PROVE  /\ src(d, k) \in DOMAIN eventList[d] /\ eventList'[d][k] = eventList[d][src(d, k)]
                      /\ ~(d = e /\ src(d, k) = i)
    OBVIOUS
  <2>1. CASE d = e
    <3>1. k \in 1 .. Len(q) - 1 /\ eventList'[d][k] = q[from(k)]
      BY <1>2, <1>3, <1>5, <2>1
    <3>2. from(k) \in 1 .. Len(q) /\ from(k) # i
      BY <1>1, <3>1
    <3> QED
      BY <1>1, <2>1, <3>1, <3>2
  <2>2. CASE d # e
    BY <1>5, <2>2
  <2> QED
    BY <2>1, <2>2
<1>9. \A d, f \in Events : \A k \in DOMAIN eventList[d], m \in DOMAIN eventList[f] :
        fnOf[eventList[d][k]] # NoFxn /\ (eventList[d][k] = eventList[f][m] => d = f /\ k = m)
  BY <1>0 DEF NoListenerLeaks
<1>10. \A d, f \in Events : \A k \in DOMAIN eventList'[d], m \in DOMAIN eventList'[f] :
         /\ fnOf'[eventList'[d][k]] # NoFxn
         /\ eventList'[d][k] = eventList'[f][m] => d = f /\ k = m
  <2> SUFFICES ASSUME NEW d \in Events, NEW f \in Events,
                      NEW k \in DOMAIN eventList'[d], NEW m \in DOMAIN eventList'[f]
               PROVE  /\ fnOf'[eventList'[d][k]] # NoFxn
                      /\ eventList'[d][k] = eventList'[f][m] => d = f /\ k = m
    OBVIOUS
  <2>1. /\ src(d, k) \in DOMAIN eventList[d] /\ eventList'[d][k] = eventList[d][src(d, k)] /\ ~(d = e /\ src(d, k) = i)
        /\ src(f, m) \in DOMAIN eventList[f] /\ eventList'[f][m] = eventList[f][src(f, m)]
    BY <1>8
  <2>2. eventList[d][src(d, k)] # q[i] /\ fnOf[eventList[d][src(d, k)]] # NoFxn
    <3> HIDE DEF src
    <3> QED
      BY <1>9, <2>1
  <2>3. eventList[d][src(d, k)] \in Listeners
    <3> HIDE DEF src
    <3> QED
      BY <1>0, <2>1, ListOf
  <2>4. fnOf'[eventList'[d][k]] # NoFxn
    BY <1>7, <2>1, <2>2, <2>3
  <2>5. ASSUME eventList'[d][k] = eventList'[f][m] PROVE d = f /\ k = m
    <3>1. d = f /\ src(d, k) = src(f, m)
      <4>1. \A x \in DOMAIN eventList[d], y \in DOMAIN eventList[f] :
              eventList[d][x] = eventList[f][y] => d = f /\ x = y
        BY <1>9
      <4> HIDE DEF src
      <4> QED
        BY <2>1, <2>5, <4>1
    <3>2. k \in Nat /\ m \in Nat
      <4>1. eventList' \in [Events -> Seq(Listeners)]
        BY <1>6
      <4> QED
        BY <4>1, LenProperties
    <3> QED
      BY <1>1, <3>1, <3>2
  <2> QED
    BY <2>4, <2>5
<1>11. \A l \in Listeners : fnOf'[l] # NoFxn => \E d \in Events : l \in ToSet(eventList'[d])
  <2> SUFFICES ASSUME NEW l \in Listeners, fnOf'[l] # NoFxn
               PROVE  \E d \in Events : \E k \in DOMAIN eventList'[d] : eventList'[d][k] = l
    BY DEF ToSet
  <2>1. l # q[i] /\ fnOf[l] # NoFxn
    BY <1>7
  <2>2. PICK d \in Events : \E k \in DOMAIN eventList[d] : eventList[d][k] = l
    BY <1>0, <2>1 DEF NoListenerLeaks, ToSet
  <2>3. PICK k \in DOMAIN eventList[d] : eventList[d][k] = l
    BY <2>2
  <2>4. CASE d # e
    BY <1>5, <2>3, <2>4
  <2>5. CASE d = e
    <3>1. k \in 1 .. Len(q) /\ k # i
      BY <1>1, <2>1, <2>3, <2>5
    <3>2. \E m \in 1 .. Len(q) - 1 : from(m) = k
      <4>1. CASE k < i
        <5>1. k \in 1 .. Len(q) - 1 /\ from(k) = k
          BY <1>1, <3>1, <4>1
        <5> QED
          BY <5>1
      <4>2. CASE k > i
        <5>1. k - 1 \in 1 .. Len(q) - 1 /\ from(k - 1) = k
          BY <1>1, <3>1, <4>2
        <5> QED
          BY <5>1
      <4> QED
        BY <1>1, <3>1, <4>1, <4>2
    <3>3. PICK m \in 1 .. Len(q) - 1 : from(m) = k
      BY <3>2
    <3>4. m \in DOMAIN eventList'[e] /\ eventList'[e][m] = q[k]
      BY <1>2, <1>3, <1>5, <3>3
    <3> QED
      BY <2>3, <2>5, <3>4
  <2> QED
    BY <2>4, <2>5
<1>12. NoListenerLeaks'
  BY <1>10, <1>11 DEF NoListenerLeaks
<1> QED
  BY <1>2, <1>5, <1>6, <1>12

\* A free listener that is put on a list.
LEMMA PutKeeps ==
  ASSUME NotifyIInv, NEW e \in Events, NEW l \in Free, NEW f \in Fns,
         fnOf' = [fnOf EXCEPT ![l] = f], eventList' = [eventList EXCEPT ![e] = Append(@, l)]
  PROVE  /\ eventList' \in [Events -> Seq(Listeners)] /\ fnOf' \in [Listeners -> Fns \cup {NoFxn}]
         /\ Len(eventList'[e]) = Len(eventList[e]) + 1
         /\ \A d \in Events : d # e => eventList'[d] = eventList[d]
         /\ NoListenerLeaks'
<1> DEFINE q == eventList[e]
<1>0. NotifyTypes /\ NoListenerLeaks /\ l \in Listeners /\ fnOf[l] = NoFxn /\ f # NoFxn
  BY NotifyAssumption DEF NotifyIInv, Free, NoFxn
<1>1. q \in Seq(Listeners) /\ Len(q) \in Nat /\ DOMAIN q = 1 .. Len(q)
  BY <1>0, ListOf
<1>2. /\ Append(q, l) \in Seq(Listeners) /\ Len(Append(q, l)) = Len(q) + 1
      /\ \A k \in 1 .. Len(q) : Append(q, l)[k] = q[k]
      /\ Append(q, l)[Len(q) + 1] = l
  BY <1>0, <1>1, AppendProperties
<1>3. DOMAIN Append(q, l) = 1 .. Len(q) + 1
  BY <1>2, LenProperties
<1>5. eventList'[e] = Append(q, l) /\ \A d \in Events : d # e => eventList'[d] = eventList[d]
  BY <1>0 DEF NotifyTypes
<1>6. eventList' \in [Events -> Seq(Listeners)] /\ fnOf' \in [Listeners -> Fns \cup {NoFxn}]
  BY <1>0, <1>2 DEF NotifyTypes
<1>7. \A m \in Listeners : fnOf'[m] = IF m = l THEN f ELSE fnOf[m]
  BY <1>0 DEF NotifyTypes
<1>8. \A d \in Events : \A k \in DOMAIN eventList'[d] :
        \/ k \in DOMAIN eventList[d] /\ eventList'[d][k] = eventList[d][k]
        \/ d = e /\ k = Len(q) + 1 /\ eventList'[d][k] = l
  <2> SUFFICES ASSUME NEW d \in Events, NEW k \in DOMAIN eventList'[d]
               PROVE  \/ k \in DOMAIN eventList[d] /\ eventList'[d][k] = eventList[d][k]
                      \/ d = e /\ k = Len(q) + 1 /\ eventList'[d][k] = l
    OBVIOUS
  <2>1. CASE d = e
    <3> HIDE DEF q
    <3>1. k \in 1 .. Len(q) + 1 /\ eventList'[d][k] = Append(q, l)[k]
      BY <1>3, <1>5, <2>1
    <3>2. CASE k = Len(q) + 1
      BY <1>2, <2>1, <3>1, <3>2
    <3>3. CASE k # Len(q) + 1
      <4>1. k \in 1 .. Len(q)
        BY <1>1, <3>1, <3>3
      <4> QED
        BY <1>1, <1>2, <2>1, <3>1, <4>1 DEF q
    <3> QED
      BY <3>2, <3>3
  <2>2. CASE d # e
    BY <1>5, <2>2
  <2> QED
    BY <2>1, <2>2
<1>9. \A d \in Events : \A k \in DOMAIN eventList[d] :
        /\ k \in DOMAIN eventList'[d] /\ eventList'[d][k] = eventList[d][k]
        /\ eventList[d][k] # l /\ eventList[d][k] \in Listeners /\ fnOf[eventList[d][k]] # NoFxn
  <2> SUFFICES ASSUME NEW d \in Events, NEW k \in DOMAIN eventList[d]
               PROVE  /\ k \in DOMAIN eventList'[d] /\ eventList'[d][k] = eventList[d][k]
                      /\ eventList[d][k] # l /\ eventList[d][k] \in Listeners /\ fnOf[eventList[d][k]] # NoFxn
    OBVIOUS
  <2>1. fnOf[eventList[d][k]] # NoFxn /\ eventList[d][k] \in Listeners
    BY <1>0, ListOf DEF NoListenerLeaks
  <2>2. k \in DOMAIN eventList'[d] /\ eventList'[d][k] = eventList[d][k]
    <3>1. CASE d = e
      <4>1. k \in 1 .. Len(q)
        BY <1>1, <3>1
      <4>2. k \in 1 .. Len(q) + 1 /\ Append(q, l)[k] = q[k]
        <5> HIDE DEF q
        <5> QED
          BY <1>1, <1>2, <4>1
      <4> QED
        BY <1>3, <1>5, <3>1, <4>2
    <3>2. CASE d # e
      BY <1>5, <3>2
    <3> QED
      BY <3>1, <3>2
  <2> QED
    BY <1>0, <2>1, <2>2
<1> HIDE DEF q
<1>10. \A d, g \in Events : \A k \in DOMAIN eventList'[d], m \in DOMAIN eventList'[g] :
         /\ fnOf'[eventList'[d][k]] # NoFxn
         /\ eventList'[d][k] = eventList'[g][m] => d = g /\ k = m
  <2> SUFFICES ASSUME NEW d \in Events, NEW g \in Events,
                      NEW k \in DOMAIN eventList'[d], NEW m \in DOMAIN eventList'[g]
               PROVE  /\ fnOf'[eventList'[d][k]] # NoFxn
                      /\ eventList'[d][k] = eventList'[g][m] => d = g /\ k = m
    OBVIOUS
  <2>1. fnOf'[eventList'[d][k]] # NoFxn
    BY <1>0, <1>7, <1>8, <1>9
  <2>2. ASSUME eventList'[d][k] = eventList'[g][m] PROVE d = g /\ k = m
    BY <1>0, <1>8, <1>9, <2>2 DEF NoListenerLeaks
  <2> QED
    BY <2>1, <2>2
<1>11. \A m \in Listeners : fnOf'[m] # NoFxn => \E d \in Events : m \in ToSet(eventList'[d])
  <2> SUFFICES ASSUME NEW m \in Listeners, fnOf'[m] # NoFxn
               PROVE  \E d \in Events : \E k \in DOMAIN eventList'[d] : eventList'[d][k] = m
    BY DEF ToSet
  <2>1. CASE m = l
    <3>1. Len(q) + 1 \in DOMAIN eventList'[e] /\ eventList'[e][Len(q) + 1] = l
      BY <1>1, <1>2, <1>3, <1>5
    <3> QED
      BY <2>1, <3>1
  <2>2. CASE m # l
    <3>1. \E d \in Events : \E k \in DOMAIN eventList[d] : eventList[d][k] = m
      BY <1>0, <1>7, <2>2 DEF NoListenerLeaks, ToSet
    <3> QED
      BY <1>9, <3>1
  <2> QED
    BY <2>1, <2>2
<1>12. NoListenerLeaks'
  BY <1>10, <1>11 DEF NoListenerLeaks
<1> QED
  BY <1>2, <1>5, <1>6, <1>12 DEF q

\* Who leaves the gate leaves it to nobody or keeps an earlier entry.
LEMMA LeaveType == ASSUME NEW t \in NotifyThreads, LeaveModule(t) PROVE modOwner' \in NotifyThreads \cup {NoOne}
BY DEF LeaveModule

\* What a thread works on.
LEMMA Works ==
  ASSUME NotifyIInv, NEW t \in NotifyThreads, notifyPc[t] \in InModule
  PROVE  /\ Event(t) \in Events /\ Fn(t) \in Fns \cup {NoFxn, ExecMany}
         /\ args[t] = [event |-> Event(t), fn |-> Fn(t)]
         /\ PurposeOf(t) /\ AtEvent(t)
<1>1. args[t] \in Args
  BY DEF NotifyIInv, NotifyTypes, InModule
<1> QED
  BY <1>1 DEF NotifyIInv, Args, Event, Fn

\* A call that ends without having changed anything.
LEMMA ReturnInv ==
  ASSUME NotifyIInv, NEW t \in NotifyThreads, notifyPc[t] \in InModule,
         notifyPc[t] \in HalfDone => Event(t) \in SingleEvents,
         modOwner' \in NotifyThreads \cup {NoOne}, Return(t), UNCHANGED <<object, driver, local>>
  PROVE  NotifyIInv'
<1>1. UNCHANGED <<callback, eventList, fnOf, regEvents, local>>
  BY DEF object, driver
<1>2. notifyPc' = [notifyPc EXCEPT ![t] = "idle"] /\ args' = [args EXCEPT ![t] = NoArgs]
  BY DEF Return, NotifyGoto
<1>3. NoListenerLeaks' /\ SingleKept' /\ (local => regEvents' = {})
  BY <1>1 DEF NotifyIInv, NoListenerLeaks, SingleKept
<1>4. \A d \in ManyEvents : callback'[d] \in {NoFxn, ExecMany} /\ Agree(d)'
  <2>1. \A d \in ManyEvents : notifyPc[t] \in HalfDone => Event(t) # d
    BY NotifyAssumption
  <2>2. \A d \in ManyEvents : callback[d] \in {NoFxn, ExecMany} /\ Agree(d)
    BY <2>1, NotBegun
  <2> QED
    BY <1>1, <2>2 DEF Agree
<1>5. /\ callback' \in [Events -> Fns \cup {NoFxn, ExecMany}]
      /\ eventList' \in [Events -> Seq(Listeners)] /\ fnOf' \in [Listeners -> Fns \cup {NoFxn}]
      /\ regEvents' \subseteq Events /\ local' = local
  BY <1>1 DEF NotifyIInv, NotifyTypes
<1>6. "idle" \in {"idle"} \cup InModule /\ "idle" \notin InModule
  BY DEF InModule
<1> QED
  BY <1>1, <1>2, <1>3, <1>4, <1>5, <1>6, StepInv

\* The thread goes on in the gate, at the same event, and has changed nothing.
LEMMA GoOnInv ==
  ASSUME NotifyIInv, NEW t \in NotifyThreads, notifyPc[t] \in InModule, NEW to \in InModule,
         notifyPc[t] \in HalfDone => to \in HalfDone,
         NotifyGoto(t, to), UNCHANGED <<moduleGate, args, object, local>>,
         regEvents' \subseteq Events, local => regEvents' = {}, SingleKept',
         \A d \in ManyEvents : d # Event(t) => (d \in regEvents' <=> d \in regEvents),
         regEvents' # regEvents => to \in HalfDone,
         PurposeOf(t)', AtEvent(t)'
  PROVE  NotifyIInv'
<1>1. UNCHANGED <<callback, eventList, fnOf, local, modOwner>>
  BY DEF object, moduleGate
<1>2. notifyPc' = [notifyPc EXCEPT ![t] = to] /\ args' = [args EXCEPT ![t] = args[t]]
  BY DEF NotifyGoto, NotifyIInv, NotifyTypes
<1>3. NoListenerLeaks'
  BY <1>1 DEF NotifyIInv, NoListenerLeaks
<1>4. args[t] \in Args /\ args[t].event = Event(t)
  BY DEF NotifyIInv, NotifyTypes, InModule, Event
<1>5. \A d \in ManyEvents : d = Event(t) =>
        /\ callback'[d] \in {NoFxn, ExecMany}
        /\ (to \in HalfDone /\ args[t] \in Args /\ args[t].event = d) \/ Agree(d)'
  <2> SUFFICES ASSUME Event(t) \in ManyEvents
               PROVE  /\ callback'[Event(t)] \in {NoFxn, ExecMany}
                      /\ to \in HalfDone \/ \A d \in ManyEvents : Agree(d)'
    BY <1>4
  <2>1. callback'[Event(t)] \in {NoFxn, ExecMany}
    BY <1>1 DEF NotifyIInv, ManyAgree
  <2>2. CASE to \notin HalfDone
    <3>1. \A d \in ManyEvents : Agree(d)
      BY NotBegun, <2>2
    <3> QED
      BY <1>1, <2>1, <2>2, <3>1 DEF Agree
  <2> QED
    BY <2>1, <2>2
<1>6. /\ callback' \in [Events -> Fns \cup {NoFxn, ExecMany}]
      /\ eventList' \in [Events -> Seq(Listeners)] /\ fnOf' \in [Listeners -> Fns \cup {NoFxn}]
      /\ modOwner' \in NotifyThreads \cup {NoOne}
  BY <1>1 DEF NotifyIInv, NotifyTypes
<1> QED
  BY <1>1, <1>2, <1>3, <1>4, <1>5, <1>6, StepInv

\* A step outside of the gate.
LEMMA OutsideInv ==
  ASSUME NotifyIInv, NEW t \in NotifyThreads, notifyPc[t] \in {"idle", "walk"},
         notifyPc' \in [NotifyThreads -> NotifyPoints], notifyPc'[t] \in {"idle", "walk"},
         args' \in [NotifyThreads -> Args \cup {NoArgs}], notifyPc'[t] # "idle" => args'[t] \in Args,
         \A u \in NotifyThreads : u # t => notifyPc'[u] = notifyPc[u] /\ args'[u] = args[u],
         UNCHANGED <<moduleGate, object, regEvents, local>>
  PROVE  NotifyIInv'
<1>1. UNCHANGED <<callback, eventList, fnOf, regEvents, local, modOwner>>
  BY DEF object, moduleGate
<1>2. NotifyTypes'
  BY <1>1 DEF NotifyIInv, NotifyTypes
<1>3. ModuleHeld'
  BY <1>1 DEF NotifyIInv, ModuleHeld, InModule
<1>4. NoListenerLeaks' /\ SingleKept' /\ (local => regEvents = {})'
  BY <1>1 DEF NotifyIInv, NoListenerLeaks, SingleKept
<1>5. \A u \in NotifyThreads : PurposeOf(u)' /\ AtEvent(u)'
  <2> SUFFICES ASSUME NEW u \in NotifyThreads PROVE PurposeOf(u)' /\ AtEvent(u)'
    OBVIOUS
  <2>1. CASE u = t
    BY <2>1 DEF PurposeOf, AtEvent
  <2>2. CASE u # t
    <3>1. notifyPc'[u] = notifyPc[u] /\ Event(u)' = Event(u) /\ Fn(u)' = Fn(u)
      BY <2>2 DEF Event, Fn
    <3>2. PurposeOf(u) /\ AtEvent(u)
      BY DEF NotifyIInv
    <3>3. PurposeOf(u)'
      BY <3>1, <3>2 DEF PurposeOf, ManyCall, ForListener
    <3>4. AtEvent(u)'
      BY <1>1, <3>1, <3>2 DEF AtEvent, Matching
    <3> QED
      BY <3>3, <3>4
  <2> QED
    BY <2>1, <2>2
<1>6. ManyAgree'
  <2> SUFFICES ASSUME NEW d \in ManyEvents
               PROVE  callback'[d] \in {NoFxn, ExecMany} /\ (WorkedOn(d)' \/ Agree(d)')
    BY DEF ManyAgree
  <2>1. callback[d] \in {NoFxn, ExecMany} /\ (WorkedOn(d) \/ Agree(d))
    BY DEF NotifyIInv, ManyAgree
  <2>2. CASE Agree(d)
    BY <1>1, <2>1, <2>2 DEF Agree
  <2>3. CASE WorkedOn(d)
    <3>1. PICK u \in NotifyThreads : notifyPc[u] \in HalfDone /\ Event(u) = d
      BY <2>3 DEF WorkedOn
    <3>2. u # t
      BY <3>1 DEF HalfDone
    <3>3. notifyPc'[u] \in HalfDone /\ Event(u)' = d
      BY <3>1, <3>2 DEF Event
    <3>4. WorkedOn(d)'
      BY <3>3 DEF WorkedOn
    <3> QED
      BY <1>1, <2>1, <3>4
  <2> QED
    BY <2>1, <2>2, <2>3
<1> QED
  BY <1>2, <1>3, <1>4, <1>5, <1>6 DEF NotifyIInv

\* disable, restore, disableEvent, enableEvent, and the walk along the listeners.
LEMMA OutsideSteps ==
  ASSUME NotifyIInv, NEW t \in NotifyThreads,
         Disable(t) \/ Restore(t) \/ WalkNext(t) \/ \E e \in Events : DisableEvent(t, e) \/ EnableEvent(t, e)
  PROVE  NotifyIInv'
<1>0. /\ notifyPc \in [NotifyThreads -> NotifyPoints] /\ args \in [NotifyThreads -> Args \cup {NoArgs}]
      /\ notifyPc[t] # "idle" => args[t] \in Args
  BY DEF NotifyIInv, NotifyTypes
<1>1. CASE Disable(t)
  <2>1. UNCHANGED <<notifyPc, args, moduleGate, object, regEvents, local>> /\ notifyPc[t] = "idle"
    BY <1>1 DEF Disable, thread
  <2> QED
    BY <1>0, <2>1, OutsideInv
<1>2. CASE Restore(t)
  <2>1. UNCHANGED <<notifyPc, args, moduleGate, object, regEvents, local>> /\ notifyPc[t] = "idle"
    BY <1>2 DEF Restore, thread
  <2> QED
    BY <1>0, <2>1, OutsideInv
<1>3. CASE WalkNext(t)
  <2>1. UNCHANGED <<moduleGate, object, regEvents, local>> /\ notifyPc[t] = "walk"
    BY <1>3 DEF WalkNext
  <2>2. \/ UNCHANGED <<notifyPc, args>>
        \/ notifyPc' = [notifyPc EXCEPT ![t] = "idle"] /\ args' = [args EXCEPT ![t] = NoArgs]
    BY <1>3 DEF WalkNext, NotifyGoto
  <2>3. /\ notifyPc' \in [NotifyThreads -> NotifyPoints] /\ notifyPc'[t] \in {"idle", "walk"}
        /\ args' \in [NotifyThreads -> Args \cup {NoArgs}] /\ (notifyPc'[t] # "idle" => args'[t] \in Args)
        /\ \A u \in NotifyThreads : u # t => notifyPc'[u] = notifyPc[u] /\ args'[u] = args[u]
    BY <1>0, <2>1, <2>2 DEF NotifyPoints
  <2> QED
    BY <2>1, <2>3, OutsideInv
<1>4. ASSUME NEW e \in Events, DisableEvent(t, e) PROVE NotifyIInv'
  <2>1. UNCHANGED <<moduleGate, object, regEvents, local>> /\ notifyPc[t] = "idle"
    BY <1>4 DEF DisableEvent
  <2>2. \/ UNCHANGED <<notifyPc, args>>
        \/ /\ notifyPc' = [notifyPc EXCEPT ![t] = "walk"]
           /\ args' = [args EXCEPT ![t] = [event |-> e, fn |-> NoFxn]]
    BY <1>4 DEF DisableEvent, NotifyGoto, thread
  <2>3. [event |-> e, fn |-> NoFxn] \in Args
    BY DEF Args
  <2>4. /\ notifyPc' \in [NotifyThreads -> NotifyPoints] /\ notifyPc'[t] \in {"idle", "walk"}
        /\ args' \in [NotifyThreads -> Args \cup {NoArgs}] /\ (notifyPc'[t] # "idle" => args'[t] \in Args)
        /\ \A u \in NotifyThreads : u # t => notifyPc'[u] = notifyPc[u] /\ args'[u] = args[u]
    BY <1>0, <2>1, <2>2, <2>3 DEF NotifyPoints
  <2> QED
    BY <2>1, <2>4, OutsideInv
<1>5. ASSUME NEW e \in Events, EnableEvent(t, e) PROVE NotifyIInv'
  <2>1. UNCHANGED <<notifyPc, args, moduleGate, object, regEvents, local>> /\ notifyPc[t] = "idle"
    BY <1>5 DEF EnableEvent, thread, driver
  <2> QED
    BY <1>0, <2>1, OutsideInv
<1> QED
  BY <1>1, <1>2, <1>3, <1>4, <1>5

\* registerEvent and registerEventSingle, from the gate on.
LEMMA RegisterSteps ==
  ASSUME NotifyIInv, NEW t \in NotifyThreads, RegisterStep(t) PROVE NotifyIInv'
<1>0. NotifyTypes /\ NoListenerLeaks /\ SingleKept /\ (local => regEvents = {})
  BY DEF NotifyIInv
<1>1. CASE RegisterNoMemory(t)
  <2>1. notifyPc[t] \in InModule /\ notifyPc[t] \notin HalfDone
    BY <1>1 DEF RegisterNoMemory, InModule, HalfDone
  <2> QED
    BY <1>1, <2>1, LeaveType, ReturnInv DEF RegisterNoMemory
<1>2. CASE RegisterListPut(t)
  <2> DEFINE e == Event(t)
  <2>1. notifyPc[t] \in InModule /\ notifyPc[t] \notin HalfDone /\ notifyPc[t] = "alloc"
    BY <1>2 DEF RegisterListPut, InModule, HalfDone
  <2>2. e \in Events /\ e \in ManyEvents /\ Fn(t) \in Fns /\ args[t] = [event |-> e, fn |-> Fn(t)]
    BY <2>1, Works DEF PurposeOf, ManyCall
  <2>3. PICK l \in Free : /\ fnOf' = [fnOf EXCEPT ![l] = Fn(t)]
                          /\ eventList' = [eventList EXCEPT ![e] = Append(@, l)]
    BY <1>2 DEF RegisterListPut
  <2>4. /\ eventList' \in [Events -> Seq(Listeners)] /\ fnOf' \in [Listeners -> Fns \cup {NoFxn}]
        /\ Len(eventList'[e]) = Len(eventList[e]) + 1
        /\ \A d \in Events : d # e => eventList'[d] = eventList[d]
        /\ NoListenerLeaks'
    BY <2>2, <2>3, PutKeeps
  <2>5. UNCHANGED <<callback, regEvents, local>>
    BY <1>2 DEF RegisterListPut, driver
  <2>6. callback[e] \in {NoFxn, ExecMany} /\ Agree(e)
    BY <2>1, <2>2, NotBegun
  <2>7. Len(eventList[e]) \in Nat /\ (eventList[e] = <<>> <=> Len(eventList[e]) = 0) /\ eventList'[e] # <<>>
    <3>1. Len(eventList[e]) \in Nat /\ (eventList[e] = <<>> <=> Len(eventList[e]) = 0)
      BY <1>0, <2>2, ListOf
    <3>2. Len(eventList'[e]) > 0
      BY <2>4, <3>1
    <3> QED
      BY <2>4, <3>1, <3>2, EmptySeq
  <2>8. SingleKept'
    <3>1. \A d \in SingleEvents : d # e /\ d \in Events
      BY <2>2, NotifyAssumption DEF Events
    <3> QED
      BY <1>0, <2>4, <2>5, <3>1 DEF SingleKept
  <2>9. CASE FirstListener(e)
    <3> DEFINE a == [event |-> e, fn |-> ExecMany]
    <3>1. notifyPc' = [notifyPc EXCEPT ![t] = "single"] /\ args' = [args EXCEPT ![t] = a] /\ UNCHANGED modOwner
      <4>1. args' = [args EXCEPT ![t].fn = ExecMany] /\ notifyPc' = [notifyPc EXCEPT ![t] = "single"] /\ UNCHANGED modOwner
        BY <1>2, <2>9 DEF RegisterListPut, NotifyGoto, moduleGate
      <4>2. [args[t] EXCEPT !.fn = ExecMany] = a
        BY <2>2
      <4> QED
        BY <4>1, <4>2
    <3>2. a \in Args
      BY <2>2 DEF Args
    <3>3. notifyPc'[t] = "single" /\ Event(t)' = e /\ Fn(t)' = ExecMany
      BY <1>0, <3>1 DEF NotifyTypes, Event, Fn
    <3>4. PurposeOf(t)'
      BY <2>2, <3>3 DEF PurposeOf, ForListener
    <3>5. callback[e] = NoFxn /\ e \notin regEvents /\ Len(eventList'[e]) = 1
      BY <1>0, <2>4, <2>6, <2>7, <2>9 DEF Agree, FirstListener, NotifyTypes
    <3>6. AtEvent(t)'
      BY <2>5, <3>3, <3>5 DEF AtEvent
    <3>7. "single" \in InModule /\ "single" \in HalfDone /\ "single" # "idle"
      BY DEF InModule, HalfDone
    <3>8. \A d \in ManyEvents : d # Event(t) =>
            /\ callback'[d] = callback[d] /\ eventList'[d] = eventList[d]
            /\ d \in regEvents' <=> d \in regEvents
      BY <2>4, <2>5 DEF Events
    <3>9. \A d \in ManyEvents : d = Event(t) =>
            /\ callback'[d] \in {NoFxn, ExecMany}
            /\ ("single" \in HalfDone /\ a \in Args /\ a.event = d) \/ Agree(d)'
      BY <2>5, <2>6, <3>2, <3>7
    <3>10. /\ callback' \in [Events -> Fns \cup {NoFxn, ExecMany}] /\ regEvents' \subseteq Events
           /\ local' = local /\ (local => regEvents' = {}) /\ modOwner' \in NotifyThreads \cup {NoOne}
      BY <1>0, <2>5, <3>1 DEF NotifyTypes
    <3>11. /\ "single" \in {"idle"} \cup InModule /\ a \in Args \cup {NoArgs}
           /\ "single" # "idle" => a \in Args
           /\ "single" \in InModule => modOwner' = modOwner
           /\ "single" \in InModule => PurposeOf(t)' /\ AtEvent(t)'
      BY <3>1, <3>2, <3>4, <3>6, <3>7
    <3> HIDE DEF a, e
    <3>12. /\ notifyPc[t] \in InModule /\ NoListenerLeaks'
           /\ eventList' \in [Events -> Seq(Listeners)] /\ fnOf' \in [Listeners -> Fns \cup {NoFxn}]
      BY <2>1, <2>4
    <3> QED
      BY ZenonT(60), <2>8, <3>1, <3>8, <3>9, <3>10, <3>11, <3>12, StepInv
  <2>10. CASE ~FirstListener(e)
    <3>1. notifyPc' = [notifyPc EXCEPT ![t] = "idle"] /\ args' = [args EXCEPT ![t] = NoArgs] /\ LeaveModule(t)
      BY <1>2, <2>10 DEF RegisterListPut, Return, NotifyGoto
    <3>2. \A d \in ManyEvents : d # Event(t) =>
            /\ callback'[d] = callback[d] /\ eventList'[d] = eventList[d]
            /\ d \in regEvents' <=> d \in regEvents
      BY <2>4, <2>5 DEF Events
    <3>3. callback'[e] \in {NoFxn, ExecMany} /\ \A d \in ManyEvents : d = Event(t) => Agree(d)'
      <4>1. callback[e] = ExecMany /\ callback[e] # NoFxn /\ (~local => e \in regEvents)
        BY <2>6, <2>10 DEF Agree, FirstListener, NoFxn, ExecMany
      <4> QED
        BY <2>5, <2>6, <2>7, <4>1 DEF Agree
    <3>4. /\ callback' \in [Events -> Fns \cup {NoFxn, ExecMany}] /\ regEvents' \subseteq Events
          /\ local' = local /\ (local => regEvents' = {}) /\ modOwner' \in NotifyThreads \cup {NoOne}
      BY <1>0, <2>5, <3>1, LeaveType DEF NotifyTypes
    <3>5. "idle" \in {"idle"} \cup InModule /\ "idle" \notin InModule
      BY DEF InModule
    <3> QED
      BY <2>1, <2>4, <2>8, <3>1, <3>2, <3>3, <3>4, <3>5, StepInv
  <2> QED
    BY <2>9, <2>10
<1>3. CASE SingleExists(t)
  <2>1. notifyPc[t] \in InModule /\ notifyPc[t] = "single" /\ callback[Event(t)] # NoFxn
    BY <1>3 DEF SingleExists, InModule
  <2>2. Event(t) \in SingleEvents /\ Fn(t) # ExecMany
    BY <2>1, Works, NotifyAssumption DEF PurposeOf, AtEvent, ForListener, ExecMany
  <2>3. LeaveModule(t) /\ Return(t) /\ UNCHANGED <<object, driver, local>>
    BY <1>3, <2>2 DEF SingleExists
  <2> QED
    BY <2>1, <2>2, <2>3, LeaveType, ReturnInv
<1>4. CASE SingleSet(t)
  <2> DEFINE e == Event(t)
  <2>1. notifyPc[t] \in InModule /\ notifyPc[t] = "single" /\ callback[e] = NoFxn
    BY <1>4 DEF SingleSet, InModule
  <2>2. /\ e \in Events /\ args[t] \in Args /\ args[t].event = e
        /\ (e \in ManyEvents /\ Fn(t) = ExecMany) \/ (e \in SingleEvents /\ Fn(t) \in Fns)
        /\ e \in ManyEvents => e \notin regEvents /\ Len(eventList[e]) = 1
    BY <1>0, <2>1, Works DEF PurposeOf, AtEvent, ForListener, NotifyTypes, Event
  <2>3. callback' = [callback EXCEPT ![e] = Fn(t)] /\ UNCHANGED <<eventList, fnOf, regEvents, local>>
    BY <1>4 DEF SingleSet, driver
  <2>4. /\ callback'[e] = Fn(t) /\ \A d \in Events : d # e => callback'[d] = callback[d]
        /\ callback' \in [Events -> Fns \cup {NoFxn, ExecMany}]
    BY <1>0, <2>2, <2>3 DEF NotifyTypes
  <2>5. Fn(t) # NoFxn /\ (Fn(t) \in Fns => Fn(t) # ExecMany)
    BY <2>2, NotifyAssumption DEF NoFxn, ExecMany
  <2>6. SingleKept'
    BY <1>0, <2>2, <2>3, <2>4, <2>5, NotifyAssumption DEF SingleKept, Events
  <2>7. NoListenerLeaks'
    BY <1>0, <2>3 DEF NoListenerLeaks
  <2>8. \A d \in ManyEvents : d # Event(t) =>
          /\ callback'[d] = callback[d] /\ eventList'[d] = eventList[d]
          /\ d \in regEvents' <=> d \in regEvents
    BY <2>3, <2>4 DEF Events
  <2>9. /\ eventList' \in [Events -> Seq(Listeners)] /\ fnOf' \in [Listeners -> Fns \cup {NoFxn}]
        /\ regEvents' \subseteq Events /\ local' = local /\ (local => regEvents' = {})
    BY <1>0, <2>3 DEF NotifyTypes
  <2>10. e \in ManyEvents => eventList'[e] # <<>> /\ callback'[e] = ExecMany
    <3>1. e \in ManyEvents => Fn(t) = ExecMany /\ eventList[e] # <<>>
      <4>1. e \in ManyEvents => Fn(t) = ExecMany
        BY <2>2, NotifyAssumption
      <4> QED
        BY <1>0, <2>2, <4>1, OneListed
    <3> QED
      BY <2>2, <2>3, <2>4, <3>1
  <2>11. CASE local
    <3>1. notifyPc' = [notifyPc EXCEPT ![t] = "idle"] /\ args' = [args EXCEPT ![t] = NoArgs] /\ LeaveModule(t)
      BY <1>4, <2>11 DEF SingleSet, Return, NotifyGoto
    <3>2. \A d \in ManyEvents : d = Event(t) => callback'[d] \in {NoFxn, ExecMany} /\ Agree(d)'
      BY <2>3, <2>10, <2>11 DEF Agree
    <3>3. modOwner' \in NotifyThreads \cup {NoOne} /\ "idle" \in {"idle"} \cup InModule /\ "idle" \notin InModule
      BY <3>1, LeaveType DEF InModule
    <3> HIDE DEF e
    <3> QED
      BY <2>1, <2>4, <2>6, <2>7, <2>8, <2>9, <3>1, <3>2, <3>3, StepInv
  <2>12. CASE ~local
    <3>1. notifyPc' = [notifyPc EXCEPT ![t] = "driverRegister"] /\ args' = [args EXCEPT ![t] = args[t]] /\ UNCHANGED modOwner
      BY <1>0, <1>4, <2>12 DEF SingleSet, NotifyGoto, moduleGate, NotifyTypes
    <3>2. notifyPc'[t] = "driverRegister" /\ Event(t)' = e /\ Fn(t)' = Fn(t)
      BY <1>0, <3>1 DEF NotifyTypes, Event, Fn
    <3>3. PurposeOf(t)'
      BY <2>2, <3>2 DEF PurposeOf, ForListener
    <3>4. AtEvent(t)'
      BY <2>2, <2>3, <2>4, <2>12, <3>2 DEF AtEvent
    <3>5. modOwner' \in NotifyThreads \cup {NoOne} /\ "driverRegister" \in InModule /\ "driverRegister" \in HalfDone
      BY <1>0, <3>1 DEF NotifyTypes, InModule, HalfDone
    <3>6. \A d \in ManyEvents : d = Event(t) =>
            /\ callback'[d] \in {NoFxn, ExecMany}
            /\ ("driverRegister" \in HalfDone /\ args[t] \in Args /\ args[t].event = d) \/ Agree(d)'
      BY <2>2, <2>10, <3>5
    <3>7. /\ "driverRegister" \in {"idle"} \cup InModule /\ args[t] \in Args \cup {NoArgs}
          /\ "driverRegister" # "idle" => args[t] \in Args
          /\ "driverRegister" \in InModule => modOwner' = modOwner
          /\ "driverRegister" \in InModule => PurposeOf(t)' /\ AtEvent(t)'
      BY <2>2, <3>1, <3>3, <3>4, <3>5
    <3>8. notifyPc[t] \in InModule /\ callback' \in [Events -> Fns \cup {NoFxn, ExecMany}] /\ modOwner' \in NotifyThreads \cup {NoOne}
      BY <2>1, <2>4, <3>5
    <3> HIDE DEF e
    <3> QED
      BY ZenonT(60), <2>6, <2>7, <2>8, <2>9, <3>1, <3>6, <3>7, <3>8, StepInv
  <2> QED
    BY <2>11, <2>12
<1>5. CASE DriverRegister(t)
  <2> DEFINE e == Event(t)
  <2>1. notifyPc[t] \in InModule /\ notifyPc[t] = "driverRegister"
    BY <1>5 DEF DriverRegister, InModule
  <2>2. /\ e \in Events /\ ~local /\ callback[e] = Fn(t)
        /\ (e \in ManyEvents /\ Fn(t) = ExecMany) \/ (e \in SingleEvents /\ Fn(t) \in Fns)
        /\ e \in ManyEvents => Len(eventList[e]) = 1
    BY <2>1, Works DEF PurposeOf, AtEvent, ForListener
  <2>3. regEvents' = regEvents \cup {e} /\ UNCHANGED <<callback, eventList, fnOf, local>>
    BY <1>5 DEF DriverRegister, object
  <2>4. Fn(t) # NoFxn
    BY <2>2, NotifyAssumption DEF NoFxn, ExecMany
  <2>5. SingleKept'
    BY <1>0, <2>2, <2>3, <2>4 DEF SingleKept
  <2>6. NoListenerLeaks'
    BY <1>0, <2>3 DEF NoListenerLeaks
  <2>7. notifyPc' = [notifyPc EXCEPT ![t] = "idle"] /\ args' = [args EXCEPT ![t] = NoArgs] /\ LeaveModule(t)
    BY <1>5 DEF DriverRegister, Return, NotifyGoto
  <2>8. \A d \in ManyEvents : d # Event(t) =>
          /\ callback'[d] = callback[d] /\ eventList'[d] = eventList[d]
          /\ d \in regEvents' <=> d \in regEvents
    BY <2>3
  <2>9. \A d \in ManyEvents : d = Event(t) => callback'[d] \in {NoFxn, ExecMany} /\ Agree(d)'
    <3>1. e \in ManyEvents => eventList'[e] # <<>> /\ callback'[e] = ExecMany /\ e \in regEvents' /\ callback'[e] # NoFxn
      <4>1. e \in ManyEvents => Fn(t) = ExecMany /\ eventList[e] # <<>>
        <5>1. e \in ManyEvents => Fn(t) = ExecMany
          BY <2>2, NotifyAssumption
        <5> QED
          BY <1>0, <2>2, <5>1, OneListed
      <4> QED
        BY <2>2, <2>3, <2>4, <4>1
    <3> QED
      BY <3>1 DEF Agree
  <2>10. /\ callback' \in [Events -> Fns \cup {NoFxn, ExecMany}]
         /\ eventList' \in [Events -> Seq(Listeners)] /\ fnOf' \in [Listeners -> Fns \cup {NoFxn}]
         /\ regEvents' \subseteq Events /\ local' = local /\ (local => regEvents' = {})
         /\ modOwner' \in NotifyThreads \cup {NoOne} /\ "idle" \in {"idle"} \cup InModule /\ "idle" \notin InModule
    BY <1>0, <2>2, <2>3, <2>7, LeaveType DEF NotifyTypes, InModule
  <2> HIDE DEF e
  <2> QED
    BY <2>1, <2>5, <2>6, <2>7, <2>8, <2>9, <2>10, StepInv
<1> QED
  BY <1>1, <1>2, <1>3, <1>4, <1>5 DEF RegisterStep

\* unregisterEvent and unregisterEventSingle, from the gate on.
LEMMA UnregisterSteps ==
  ASSUME NotifyIInv, NEW t \in NotifyThreads, UnregisterStep(t) PROVE NotifyIInv'
<1> DEFINE e == Event(t)
<1>0. NotifyTypes /\ NoListenerLeaks /\ SingleKept /\ (local => regEvents = {})
  BY DEF NotifyIInv
<1>1. CASE UnregisterEmpty(t)
  <2>1. notifyPc[t] \in InModule /\ notifyPc[t] \notin HalfDone /\ UNCHANGED <<object, driver, local>> /\ Return(t)
    BY <1>1 DEF UnregisterEmpty, InModule, HalfDone
  <2>2. modOwner' \in NotifyThreads \cup {NoOne}
    BY <1>0, <1>1 DEF UnregisterEmpty, moduleGate, NotifyTypes
  <2> QED
    BY <2>1, <2>2, ReturnInv
<1>2. CASE UnregisterNotFound(t)
  <2>1. notifyPc[t] \in InModule /\ notifyPc[t] \notin HalfDone /\ UNCHANGED <<object, driver, local>> /\ Return(t) /\ LeaveModule(t)
    BY <1>2 DEF UnregisterNotFound, InModule, HalfDone
  <2> QED
    BY <2>1, LeaveType, ReturnInv
<1>3. CASE UnSingleMissing(t)
  <2>1. notifyPc[t] \in InModule /\ notifyPc[t] \notin HalfDone /\ notifyPc[t] = "unSingle" /\ callback[e] = NoFxn
    BY <1>3 DEF UnSingleMissing, InModule, HalfDone
  <2>2. Fn(t) = NoFxn
    BY <2>1, Works DEF PurposeOf, AtEvent, ManyCall, NoFxn, ExecMany
  <2>3. LeaveModule(t) /\ Return(t) /\ UNCHANGED <<object, driver, local>>
    BY <1>3, <2>2 DEF UnSingleMissing
  <2> QED
    BY <2>1, <2>3, LeaveType, ReturnInv
<1>4. CASE UnSingleDriver(t)
  <2>1. notifyPc[t] \in InModule /\ notifyPc[t] = "unSingle" /\ callback[e] # NoFxn
    BY <1>4 DEF UnSingleDriver, InModule
  <2>2. PurposeOf(t) /\ AtEvent(t) /\ e \in Events
    BY <2>1, Works
  <2>3. /\ regEvents' = regEvents \ {e} /\ NotifyGoto(t, "unSingleClear")
        /\ UNCHANGED <<moduleGate, args, object, local>>
    BY <1>4 DEF UnSingleDriver
  <2>4. UNCHANGED <<callback, eventList, fnOf>> /\ Event(t)' = e /\ Fn(t)' = Fn(t) /\ notifyPc'[t] = "unSingleClear"
    BY <1>0, <2>3 DEF object, Event, Fn, NotifyGoto, NotifyTypes
  <2>5. PurposeOf(t)'
    BY <2>1, <2>2, <2>4 DEF PurposeOf, ManyCall
  <2>6. AtEvent(t)'
    BY <2>1, <2>2, <2>3, <2>4 DEF AtEvent, Matching
  <2>7. SingleKept'
    BY <1>0, <2>3, <2>4 DEF SingleKept
  <2>8. "unSingleClear" \in InModule /\ "unSingleClear" \in HalfDone
    BY DEF InModule, HalfDone
  <2>9. /\ regEvents' \subseteq Events /\ (local => regEvents' = {})
        /\ \A d \in ManyEvents : d # Event(t) => (d \in regEvents' <=> d \in regEvents)
    BY <1>0, <2>3 DEF NotifyTypes
  <2> HIDE DEF e
  <2> QED
    BY <2>1, <2>3, <2>5, <2>6, <2>7, <2>8, <2>9, GoOnInv
<1>5. CASE UnSingleClear(t)
  <2>1. notifyPc[t] \in InModule /\ notifyPc[t] = "unSingleClear"
    BY <1>5 DEF UnSingleClear, InModule
  <2>2. PurposeOf(t) /\ AtEvent(t) /\ e \in Events /\ args[t] \in Args /\ args[t].event = e
    BY <1>0, <2>1, Works DEF NotifyTypes, Event
  <2>3. callback' = [callback EXCEPT ![e] = NoFxn] /\ UNCHANGED <<eventList, fnOf, regEvents, local>>
    BY <1>5 DEF UnSingleClear, driver
  <2>4. /\ callback'[e] = NoFxn /\ \A d \in Events : d # e => callback'[d] = callback[d]
        /\ callback' \in [Events -> Fns \cup {NoFxn, ExecMany}]
    BY <1>0, <2>2, <2>3 DEF NotifyTypes
  <2>5. e \notin regEvents /\ NoFxn # ExecMany
    BY <2>1, <2>2 DEF AtEvent, NoFxn, ExecMany
  <2>6. SingleKept'
    BY <1>0, <2>2, <2>3, <2>4, <2>5 DEF SingleKept, Events
  <2>7. NoListenerLeaks'
    BY <1>0, <2>3 DEF NoListenerLeaks
  <2>8. \A d \in ManyEvents : d # Event(t) =>
          /\ callback'[d] = callback[d] /\ eventList'[d] = eventList[d]
          /\ d \in regEvents' <=> d \in regEvents
    BY <2>3, <2>4 DEF Events
  <2>9. /\ eventList' \in [Events -> Seq(Listeners)] /\ fnOf' \in [Listeners -> Fns \cup {NoFxn}]
        /\ regEvents' \subseteq Events /\ local' = local /\ (local => regEvents' = {})
    BY <1>0, <2>3 DEF NotifyTypes
  <2>10. CASE Fn(t) = NoFxn
    <3>1. notifyPc' = [notifyPc EXCEPT ![t] = "idle"] /\ args' = [args EXCEPT ![t] = NoArgs] /\ LeaveModule(t)
      BY <1>5, <2>10 DEF UnSingleClear, Return, NotifyGoto
    <3>2. e \notin ManyEvents
      BY <2>1, <2>2, <2>10, NotifyAssumption DEF PurposeOf, ManyCall, NoFxn
    <3>3. modOwner' \in NotifyThreads \cup {NoOne} /\ "idle" \in {"idle"} \cup InModule /\ "idle" \notin InModule
      BY <3>1, LeaveType DEF InModule
    <3>4. \A d \in ManyEvents : d = Event(t) => callback'[d] \in {NoFxn, ExecMany} /\ Agree(d)'
      BY <3>2
    <3> HIDE DEF e
    <3> QED
      BY <2>1, <2>4, <2>6, <2>7, <2>8, <2>9, <3>1, <3>3, <3>4, StepInv
  <2>11. CASE Fn(t) # NoFxn
    <3>1. notifyPc' = [notifyPc EXCEPT ![t] = "unLast"] /\ args' = [args EXCEPT ![t] = args[t]] /\ UNCHANGED modOwner
      BY <1>0, <1>5, <2>11 DEF UnSingleClear, NotifyGoto, moduleGate, NotifyTypes
    <3>2. notifyPc'[t] = "unLast" /\ Event(t)' = e /\ Fn(t)' = Fn(t)
      BY <1>0, <3>1 DEF NotifyTypes, Event, Fn
    <3>3. PurposeOf(t)'
      BY <2>1, <2>2, <2>11, <3>2 DEF PurposeOf, ManyCall
    <3>4. AtEvent(t)'
      BY <2>1, <2>2, <2>3, <2>4, <3>2 DEF AtEvent, Matching
    <3>5. modOwner' \in NotifyThreads \cup {NoOne} /\ "unLast" \in InModule /\ "unLast" \in HalfDone
      BY <1>0, <3>1 DEF NotifyTypes, InModule, HalfDone
    <3>6. \A d \in ManyEvents : d = Event(t) =>
            /\ callback'[d] \in {NoFxn, ExecMany}
            /\ ("unLast" \in HalfDone /\ args[t] \in Args /\ args[t].event = d) \/ Agree(d)'
      BY <2>2, <2>4, <3>5
    <3>7. /\ "unLast" \in {"idle"} \cup InModule /\ args[t] \in Args \cup {NoArgs}
          /\ "unLast" # "idle" => args[t] \in Args
          /\ "unLast" \in InModule => modOwner' = modOwner
          /\ "unLast" \in InModule => PurposeOf(t)' /\ AtEvent(t)'
      BY <2>2, <3>1, <3>3, <3>4, <3>5
    <3>8. notifyPc[t] \in InModule /\ callback' \in [Events -> Fns \cup {NoFxn, ExecMany}] /\ modOwner' \in NotifyThreads \cup {NoOne}
      BY <2>1, <2>4, <3>5
    <3> HIDE DEF e
    <3> QED
      BY ZenonT(60), <2>6, <2>7, <2>8, <2>9, <3>1, <3>6, <3>7, <3>8, StepInv
  <2> QED
    BY <2>10, <2>11
<1>6. CASE UnregisterLast(t)
  <2>1. /\ notifyPc[t] \in InModule /\ notifyPc[t] \notin HalfDone /\ notifyPc[t] = "find"
        /\ Matching(e, Fn(t)) # {} /\ Len(eventList[e]) = 1
        /\ NotifyGoto(t, "unSingle") /\ UNCHANGED <<moduleGate, args, object, driver, local>>
    BY <1>6 DEF UnregisterLast, InModule, HalfDone
  <2>2. e \in ManyEvents /\ Fn(t) \in Fns /\ e \in Events
    BY <2>1, Works DEF PurposeOf, ManyCall
  <2>3. callback[e] = ExecMany
    <3>1. eventList[e] # <<>>
      BY <1>0, <2>1, <2>2, OneListed
    <3> QED
      BY <2>1, <2>2, <3>1, NotBegun DEF Agree
  <2>4. UNCHANGED <<callback, eventList, fnOf, regEvents>> /\ Event(t)' = e /\ Fn(t)' = Fn(t) /\ notifyPc'[t] = "unSingle"
    BY <1>0, <2>1 DEF object, driver, Event, Fn, NotifyGoto, NotifyTypes
  <2>5. PurposeOf(t)'
    BY <2>2, <2>4 DEF PurposeOf, ManyCall
  <2>6. AtEvent(t)'
    BY <2>1, <2>3, <2>4 DEF AtEvent, Matching
  <2>7. SingleKept' /\ regEvents' \subseteq Events /\ (local => regEvents' = {})
    BY <1>0, <2>4 DEF SingleKept, NotifyTypes
  <2>8. "unSingle" \in InModule
    BY DEF InModule
  <2> HIDE DEF e
  <2> QED
    BY <2>1, <2>4, <2>5, <2>6, <2>7, <2>8, GoOnInv
<1>7. CASE UnregisterRemove(t) \/ UnregisterRemoveLast(t)
  <2> DEFINE i == Min(Matching(e, Fn(t)))
  <2>1. /\ notifyPc[t] \in InModule /\ notifyPc[t] \in {"find", "unLast"} /\ Release(e, i)
        /\ LeaveModule(t) /\ Return(t) /\ UNCHANGED <<callback, driver, local>>
    BY <1>7 DEF UnregisterRemove, UnregisterRemoveLast, InModule
  <2>2. e \in ManyEvents /\ Fn(t) \in Fns /\ e \in Events /\ AtEvent(t)
    BY <2>1, Works DEF PurposeOf, ManyCall
  <2>3. i \in DOMAIN eventList[e]
    <3>1. Matching(e, Fn(t)) # {}
      BY <1>7, <2>1, <2>2 DEF UnregisterRemove, UnregisterRemoveLast, AtEvent
    <3>2. Matching(e, Fn(t)) \subseteq DOMAIN eventList[e] /\ DOMAIN eventList[e] \subseteq Nat
      BY <1>0, <2>2, ListOf DEF Matching
    <3> QED
      BY <3>1, <3>2, MinIsIn
  <2>4. /\ eventList' \in [Events -> Seq(Listeners)] /\ fnOf' \in [Listeners -> Fns \cup {NoFxn}]
        /\ Len(eventList'[e]) = Len(eventList[e]) - 1
        /\ \A d \in Events : d # e => eventList'[d] = eventList[d]
        /\ NoListenerLeaks'
    <3> HIDE DEF i, e
    <3> QED
      BY <2>1, <2>2, <2>3, ReleaseKeeps
  <2>5. /\ Len(eventList[e]) \in Nat /\ Len(eventList'[e]) \in Nat
        /\ eventList[e] = <<>> <=> Len(eventList[e]) = 0
        /\ eventList'[e] = <<>> <=> Len(eventList'[e]) = 0
    <3>1. eventList'[e] \in Seq(Listeners) /\ eventList[e] \in Seq(Listeners)
      BY <1>0, <2>2, <2>4 DEF NotifyTypes
    <3> QED
      BY <3>1, LenProperties, EmptySeq
  <2>6. UNCHANGED <<callback, regEvents, local>>
    BY <2>1 DEF driver
  <2>7. callback'[e] \in {NoFxn, ExecMany} /\ \A d \in ManyEvents : d = Event(t) => Agree(d)'
    <3>1. CASE UnregisterRemove(t)
      <4>1. Len(eventList[e]) > 1 /\ notifyPc[t] = "find" /\ notifyPc[t] \notin HalfDone
        BY <3>1 DEF UnregisterRemove, HalfDone
      <4>2. callback[e] \in {NoFxn, ExecMany} /\ Agree(e)
        BY <2>1, <2>2, <4>1, NotBegun
      <4>3. eventList'[e] # <<>> /\ eventList[e] # <<>>
        BY <2>4, <2>5, <4>1
      <4> QED
        BY <2>6, <4>2, <4>3 DEF Agree
    <3>2. CASE UnregisterRemoveLast(t)
      <4>1. callback[e] = NoFxn /\ e \notin regEvents /\ Len(eventList[e]) = 1
        BY <2>2, <3>2 DEF UnregisterRemoveLast, AtEvent
      <4>2. eventList'[e] = <<>> /\ NoFxn # ExecMany
        BY <2>4, <2>5, <4>1 DEF NoFxn, ExecMany
      <4> QED
        BY <2>6, <4>1, <4>2 DEF Agree
    <3> QED
      BY <1>7, <3>1, <3>2
  <2>8. SingleKept'
    <3>1. \A d \in SingleEvents : d # e /\ d \in Events
      BY <2>2, NotifyAssumption DEF Events
    <3> QED
      BY <1>0, <2>4, <2>6, <3>1 DEF SingleKept
  <2>9. \A d \in ManyEvents : d # Event(t) =>
          /\ callback'[d] = callback[d] /\ eventList'[d] = eventList[d]
          /\ d \in regEvents' <=> d \in regEvents
    BY <2>4, <2>6 DEF Events
  <2>10. /\ callback' \in [Events -> Fns \cup {NoFxn, ExecMany}] /\ regEvents' \subseteq Events
         /\ local' = local /\ (local => regEvents' = {}) /\ modOwner' \in NotifyThreads \cup {NoOne}
         /\ notifyPc' = [notifyPc EXCEPT ![t] = "idle"] /\ args' = [args EXCEPT ![t] = NoArgs]
         /\ "idle" \in {"idle"} \cup InModule /\ "idle" \notin InModule
    BY <1>0, <2>1, <2>6, LeaveType DEF NotifyTypes, InModule, Return, NotifyGoto
  <2>11. /\ notifyPc[t] \in InModule /\ NoListenerLeaks'
         /\ eventList' \in [Events -> Seq(Listeners)] /\ fnOf' \in [Listeners -> Fns \cup {NoFxn}]
         /\ \A d \in ManyEvents : d = Event(t) => callback'[d] \in {NoFxn, ExecMany} /\ Agree(d)'
    BY <2>1, <2>4, <2>7
  <2> HIDE DEF i, e
  <2> QED
    BY <2>8, <2>9, <2>10, <2>11, StepInv
<1> QED
  BY <1>1, <1>2, <1>3, <1>4, <1>5, <1>6, <1>7 DEF UnregisterStep

\* Every step keeps the invariant.
LEMMA NotifyStepInv == NotifyIInv /\ [NotifyNext]_notifyVars => NotifyIInv'
<1> SUFFICES ASSUME NotifyIInv, [NotifyNext]_notifyVars PROVE NotifyIInv'
  OBVIOUS
<1>1. CASE UNCHANGED notifyVars
  <2>1. UNCHANGED <<local, modOwner, callback, eventList, fnOf, regEvents, notifyPc, args>>
    BY <1>1 DEF notifyVars, moduleGate, object, driver, thread
  <2>2. NotifyTypes' /\ ModuleHeld' /\ NoListenerLeaks' /\ SingleKept' /\ (local => regEvents = {})'
    BY <2>1 DEF NotifyIInv, NotifyTypes, ModuleHeld, NoListenerLeaks, SingleKept
  <2>3. ManyAgree'
    BY <2>1 DEF NotifyIInv, ManyAgree, WorkedOn, Agree, Event
  <2>4. \A t \in NotifyThreads : PurposeOf(t)' /\ AtEvent(t)'
    BY <2>1 DEF NotifyIInv, PurposeOf, AtEvent, ManyCall, ForListener, Event, Fn, Matching
  <2> QED
    BY <2>2, <2>3, <2>4 DEF NotifyIInv
<1>2. ASSUME NEW t \in NotifyThreads, NEW e \in ManyEvents, NEW f \in Fns, RegisterEvent(t, e, f)
      PROVE  NotifyIInv'
  BY <1>2, CallInv DEF RegisterEvent, Events
<1>3. ASSUME NEW t \in NotifyThreads, NEW e \in ManyEvents, NEW f \in Fns, UnregisterEvent(t, e, f)
      PROVE  NotifyIInv'
  BY <1>3, CallInv DEF UnregisterEvent, Events
<1>4. ASSUME NEW t \in NotifyThreads, NEW e \in SingleEvents, NEW f \in Fns, RegisterEventSingle(t, e, f)
      PROVE  NotifyIInv'
  BY <1>4, CallInv DEF RegisterEventSingle, Events
<1>5. ASSUME NEW t \in NotifyThreads, NEW e \in SingleEvents, UnregisterEventSingle(t, e)
      PROVE  NotifyIInv'
  BY <1>5, CallInv DEF UnregisterEventSingle, Events
<1> QED
  BY <1>1, <1>2, <1>3, <1>4, <1>5, RegisterSteps, UnregisterSteps, OutsideSteps DEF NotifyNext

\* Who works on an event knows what is still to be done; on another, all agree.
LEMMA NotifyInvKept == NotifyIInv => ListenersAreKept
<1> SUFFICES ASSUME NotifyIInv PROVE ListenersAreKept
  OBVIOUS
<1>0. NotifyTypes /\ NoListenerLeaks /\ SingleKept /\ (local => regEvents = {}) /\ NoFxn # ExecMany
  BY DEF NotifyIInv, NoFxn, ExecMany
<1>1. ExecutableHasCallback
  <2> SUFFICES ASSUME NEW e \in Events, CanExecute(e)
               PROVE  callback[e] # NoFxn /\ (callback[e] = ExecMany => eventList[e] # <<>>)
    BY DEF ExecutableHasCallback
  <2>1. CASE e \in SingleEvents
    BY <1>0, <2>1 DEF SingleKept, CanExecute
  <2>2. CASE e \in ManyEvents /\ Agree(e)
    BY <1>0, <2>2 DEF Agree, CanExecute
  <2>3. CASE e \in ManyEvents /\ WorkedOn(e)
    <3>1. PICK t \in NotifyThreads : notifyPc[t] \in HalfDone /\ Event(t) = e
      BY <2>3 DEF WorkedOn
    <3>2. PurposeOf(t) /\ AtEvent(t)
      BY DEF NotifyIInv
    <3>3. CASE notifyPc[t] \in {"single", "unLast"}
      BY <2>3, <3>1, <3>2, <3>3 DEF AtEvent, CanExecute
    <3>4. CASE notifyPc[t] \in {"driverRegister", "unSingleClear"}
      <4>1. Len(eventList[e]) = 1
        BY <2>3, <3>1, <3>2, <3>4 DEF AtEvent
      <4>2. eventList[e] # <<>>
        BY <1>0, <4>1, OneListed
      <4>3. callback[e] = ExecMany
        BY <2>3, <3>1, <3>2, <3>4, NotifyAssumption DEF AtEvent, PurposeOf, ForListener
      <4> QED
        BY <1>0, <4>2, <4>3
    <3> QED
      BY <3>1, <3>3, <3>4 DEF HalfDone
  <2> QED
    BY <2>1, <2>2, <2>3 DEF NotifyIInv, ManyAgree, Events
<1>2. ListenersAreServed
  <2> SUFFICES ASSUME Quiet, NEW e \in ManyEvents
               PROVE  eventList[e] # <<>> <=> CanExecute(e) /\ callback[e] = ExecMany
    BY DEF ListenersAreServed
  <2>1. Agree(e)
    BY DEF NotifyIInv, ManyAgree, WorkedOn, HalfDone, Quiet
  <2> QED
    BY <1>0, <2>1 DEF Agree, CanExecute
<1> QED
  BY <1>0, <1>1, <1>2 DEF ListenersAreKept

(* At every step of registering and unregistering an event that can be      *)
(* executed has a callback, an event with listeners is served when no thread *)
(* is inside, and no listener leaks (Notify_registerEvent,                   *)
(* Notify_unregisterEvent and their single forms).                           *)
THEOREM ListenersStay == NotifySpec => []ListenersAreKept
<1>1. NotifySpec => []NotifyIInv
  BY NotifyInitInv, NotifyStepInv, PTL DEF NotifySpec
<1> QED
  BY <1>1, NotifyInvKept, PTL
=============================================================================

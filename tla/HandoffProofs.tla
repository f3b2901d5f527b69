---------------------------- MODULE HandoffProofs ---------------------------
(***************************************************************************)
(* What unlocked pruning and restoring guarantee for any number of sessions, *)
(* checkpoints and kills, and any `keep`.                                  *)
(***************************************************************************)
EXTENDS Handoff, FiniteSetTheorems, TLAPS

-----------------------------------------------------------------------------
(* Types.                                                                  *)

LEMMA IdleType == Idle \in Processes
BY HandoffAssumption DEF Idle, Processes, Steps

\* Only one process moves in a step.
Alone(p) == \A q \in Sessions \ {p} : proc'[q] = proc[q]

LEMMA TypeInit == Init => TypeOK
<1> SUFFICES ASSUME Init PROVE TypeOK
  OBVIOUS
<1>1. 1 \in Times
  BY HandoffAssumption DEF Times
<1> QED BY <1>1, IdleType DEF Init, TypeOK

LEMMA TypeOfProc ==
  ASSUME TypeOK, NEW p \in Sessions
  PROVE  /\ proc[p] \in Processes
         /\ proc[p].pc \in Steps
         /\ proc[p].id \in Checkpoints \cup {None}
         /\ proc[p].want \subseteq Sessions
         /\ proc[p].todo \subseteq Checkpoints
         /\ proc[p].seen \subseteq Checkpoints
         /\ proc[p].doomed \subseteq Checkpoints
         /\ proc[p].best \in 0..MaxTime
         /\ proc[p].passed \subseteq Checkpoints
BY DEF TypeOK, Processes

\* A process that ends up with a record of the right type keeps the types.
LEMMA TypeProcStep ==
  ASSUME TypeOK, NEW p \in Sessions, NEW q \in Processes, proc' = [proc EXCEPT ![p] = q]
  PROVE  proc' \in [Sessions -> Processes] /\ proc'[p] = q /\ Alone(p)
BY DEF TypeOK, Alone

LEMMA TypeTake ==
  ASSUME TypeOK, NEW p \in Sessions, Take(p)
  PROVE  TypeOK' /\ Alone(p) /\ proc'[p] = [Idle EXCEPT !.pc = "git", !.id = [by |-> p, at |-> now]]
<1> DEFINE c == [by |-> p, at |-> now]
           q == [Idle EXCEPT !.pc = "git", !.id = c]
<1>1. c \in Checkpoints
  BY DEF Checkpoints, TypeOK
<1>2. q \in Processes
  BY <1>1, IdleType DEF Idle, Processes, Steps
<1>3. proc' = [proc EXCEPT ![p] = q]
  BY DEF Take
<1>4. proc' \in [Sessions -> Processes] /\ proc'[p] = q /\ Alone(p)
  BY <1>2, <1>3, TypeProcStep
<1> QED BY <1>4 DEF Take, TypeOK

-----------------------------------------------------------------------------
(* Processes: what one step makes of a field.                              *)

Procs == [Sessions -> Processes]

LEMMA SetPc ==
  ASSUME NEW f \in Procs, NEW p \in Sessions, NEW x \in Steps
  PROVE  [f EXCEPT ![p].pc = x] \in Procs
BY DEF Procs, Processes

LEMMA SetId ==
  ASSUME NEW f \in Procs, NEW p \in Sessions, NEW x \in Checkpoints \cup {None}
  PROVE  [f EXCEPT ![p].id = x] \in Procs
BY DEF Procs, Processes

LEMMA SetTodo ==
  ASSUME NEW f \in Procs, NEW p \in Sessions, NEW x \in SUBSET Checkpoints
  PROVE  [f EXCEPT ![p].todo = x] \in Procs
BY DEF Procs, Processes

LEMMA SetSeen ==
  ASSUME NEW f \in Procs, NEW p \in Sessions, NEW x \in SUBSET Checkpoints
  PROVE  [f EXCEPT ![p].seen = x] \in Procs
BY DEF Procs, Processes

LEMMA SetDoomed ==
  ASSUME NEW f \in Procs, NEW p \in Sessions, NEW x \in SUBSET Checkpoints
  PROVE  [f EXCEPT ![p].doomed = x] \in Procs
BY DEF Procs, Processes

LEMMA SetPassed ==
  ASSUME NEW f \in Procs, NEW p \in Sessions, NEW x \in SUBSET Checkpoints
  PROVE  [f EXCEPT ![p].passed = x] \in Procs
BY DEF Procs, Processes

LEMMA Replace ==
  ASSUME NEW f \in Procs, NEW p \in Sessions, NEW x \in Processes
  PROVE  [f EXCEPT ![p] = x] \in Procs
BY DEF Procs

\* A process with an identity of the type that git and write need.
Taking(p) == proc[p].pc \in {"git", "write"} => proc[p].id \in Checkpoints

Fields(p, pc, want, best) ==
  proc'[p].pc = pc /\ proc'[p].want = want /\ proc'[p].best = best

\* What else stays as it is unless it is passed over.
SamePassed(p) == proc'[p].passed = proc[p].passed

LEMMA StepOpen ==
  ASSUME TypeOK, NEW p \in Sessions, Taking(p), Open(p)
  PROVE  /\ TypeOK' /\ Alone(p)
         /\ proc'[p].pc = "write" /\ proc'[p].id = proc[p].id
         /\ proc'[p].seen = proc[p].seen /\ proc'[p].doomed = proc[p].doomed
<1>1. proc \in Procs /\ "write" \in Steps
  BY DEF TypeOK, Procs, Steps
<1>2. proc' = [proc EXCEPT ![p].pc = "write"]
  BY DEF Open
<1>3. proc' \in Procs
  BY <1>1, <1>2, SetPc, Zenon
<1>4. proc[p].id \in Checkpoints
  BY DEF Taking, Open, At
<1>5. /\ Alone(p)
      /\ proc'[p].pc = "write" /\ proc'[p].id = proc[p].id
      /\ proc'[p].seen = proc[p].seen /\ proc'[p].doomed = proc[p].doomed
  BY <1>1, <1>2 DEF Procs, Processes, Alone
<1> QED BY <1>3, <1>4, <1>5 DEF Open, TypeOK, Procs

LEMMA StepWrite ==
  ASSUME TypeOK, NEW p \in Sessions, Taking(p), Write(p)
  PROVE  /\ TypeOK' /\ Alone(p)
         /\ proc[p].id \in Checkpoints
         /\ proc'[p] = [Idle EXCEPT !.pc = "readdir"]
<1>1. [Idle EXCEPT !.pc = "readdir"] \in Processes
  BY IdleType DEF Idle, Processes, Steps
<1>2. proc' = [proc EXCEPT ![p] = [Idle EXCEPT !.pc = "readdir"]]
  BY DEF Write
<1>3. proc[p].id \in Checkpoints
  BY DEF Taking, Write, At
<1>4. proc' \in [Sessions -> Processes] /\ proc'[p] = [Idle EXCEPT !.pc = "readdir"] /\ Alone(p)
  BY <1>1, <1>2, TypeProcStep
<1> QED BY <1>3, <1>4 DEF Write, TypeOK

LEMMA StepReaddir ==
  ASSUME TypeOK, NEW p \in Sessions, Readdir(p)
  PROVE  /\ TypeOK' /\ Alone(p)
         /\ Fields(p, "list", proc[p].want, proc[p].best) /\ SamePassed(p)
         /\ proc'[p].todo = torn \cup whole
         /\ proc'[p].seen = proc[p].seen /\ proc'[p].doomed = proc[p].doomed
<1> DEFINE f == [proc EXCEPT ![p].pc = "list"]
           all == torn \cup whole
<1>1. proc \in Procs /\ "list" \in Steps /\ all \in SUBSET Checkpoints
  BY DEF TypeOK, Procs, Steps
<1>2. proc' = [f EXCEPT ![p].todo = all]
  BY DEF Readdir
<1>3. /\ Alone(p) /\ Fields(p, "list", proc[p].want, proc[p].best) /\ SamePassed(p)
      /\ proc'[p].todo = all
      /\ proc'[p].seen = proc[p].seen /\ proc'[p].doomed = proc[p].doomed
  BY <1>1 DEF Readdir, Procs, Processes, Alone, Fields, SamePassed
<1>4. f \in Procs
  BY <1>1, SetPc, Zenon
<1> HIDE DEF f, all
<1>5. [f EXCEPT ![p].todo = all] \in Procs
  BY <1>1, <1>4, SetTodo, Zenon
<1> QED BY <1>2, <1>3, <1>5 DEF Readdir, TypeOK, Procs, all

LEMMA StepReadNext ==
  ASSUME TypeOK, NEW p \in Sessions, ReadNext(p)
  PROVE  /\ TypeOK' /\ Alone(p)
         /\ Fields(p, "list", proc[p].want, proc[p].best) /\ SamePassed(p)
         /\ proc'[p].doomed = proc[p].doomed
         /\ \E c \in proc[p].todo :
              /\ proc'[p].todo = proc[p].todo \ {c}
              /\ proc'[p].seen = IF c \in whole THEN proc[p].seen \cup {c} ELSE proc[p].seen
<1>1. PICK c \in proc[p].todo :
        proc' = [proc EXCEPT ![p].todo = @ \ {c},
                             ![p].seen = IF c \in whole THEN @ \cup {c} ELSE @]
  BY DEF ReadNext
<1> DEFINE todo == proc[p].todo \ {c}
           seen == IF c \in whole THEN proc[p].seen \cup {c} ELSE proc[p].seen
           f == [proc EXCEPT ![p].todo = todo]
<1>2. proc \in Procs /\ todo \in SUBSET Checkpoints /\ seen \in SUBSET Checkpoints
  BY TypeOfProc DEF TypeOK, Procs
<1>3. proc' = [f EXCEPT ![p].seen = seen]
  BY <1>1, <1>2 DEF Procs, Processes
<1>4. /\ Alone(p) /\ Fields(p, "list", proc[p].want, proc[p].best) /\ SamePassed(p)
      /\ proc'[p].doomed = proc[p].doomed
      /\ proc'[p].todo = todo /\ proc'[p].seen = seen
  <2>1. proc[p].pc = "list"
    BY DEF ReadNext, At
  <2> HIDE DEF seen, todo
  <2> QED BY <1>2, <1>3, <2>1 DEF Procs, Processes, Alone, Fields, SamePassed
<1>5. f \in Procs
  BY <1>2, SetTodo, Zenon
<1> HIDE DEF f, seen
<1>6. [f EXCEPT ![p].seen = seen] \in Procs
  BY <1>2, <1>5, SetSeen, Zenon
<1> QED BY <1>3, <1>4, <1>6 DEF ReadNext, TypeOK, Procs, seen

LEMMA PrunedIsSeen ==
  ASSUME NEW S, NEW D \in Prunable(S)
  PROVE  D \subseteq S
BY DEF Prunable

LEMMA NewestKnown ==
  ASSUME TypeOK, NEW want \in SUBSET Sessions,
         NEW best \in LET known == {c \in finished : c.by \in want}
                      IN  IF known = {} THEN {0} ELSE {c.at : c \in Newest(known)}
  PROVE  /\ best \in 0..MaxTime
         /\ best > 0 => \E b \in finished : b.by \in want /\ b.at = best
<1>1. 0 \in 0..MaxTime /\ ~(0 > 0)
  BY HandoffAssumption
<1>2. \A c \in Newest({c \in finished : c.by \in want}) : c \in finished /\ c.by \in want
  BY DEF Newest
<1>3. \A c \in finished : c.at \in 0..MaxTime
  BY HandoffAssumption DEF TypeOK, Checkpoints, Times
<1> QED BY <1>1, <1>2, <1>3

Doomed(p, D) == [Idle EXCEPT !.pc = "unlink", !.doomed = D, !.passed = proc[p].passed]

LEMMA StepPrune ==
  ASSUME TypeOK, NEW p \in Sessions, Prune(p)
  PROVE  /\ TypeOK' /\ Alone(p)
         /\ \E D \in Prunable(proc[p].seen) : proc'[p] = Doomed(p, D)
<1>1. PICK D \in Prunable(proc[p].seen) :
             proc' = [proc EXCEPT ![p] = Doomed(p, D)]
  BY DEF Prune, Doomed
<1> DEFINE q == Doomed(p, D)
<1>2. D \subseteq Checkpoints
  BY TypeOfProc, PrunedIsSeen
<1>3. q \in Processes
  BY <1>2, IdleType, TypeOfProc DEF Doomed, Idle, Processes, Steps
<1>4. proc' \in [Sessions -> Processes] /\ proc'[p] = q /\ Alone(p)
  BY <1>1, <1>3, TypeProcStep
<1> QED BY <1>4 DEF Prune, TypeOK

LEMMA StepUnlink ==
  ASSUME TypeOK, NEW p \in Sessions, Unlink(p)
  PROVE  /\ TypeOK' /\ Alone(p)
         /\ Fields(p, "unlink", proc[p].want, proc[p].best) /\ SamePassed(p)
         /\ proc'[p].seen = proc[p].seen
         /\ \E c \in proc[p].doomed : /\ whole' = whole \ {c}
                                      /\ proc'[p].doomed = proc[p].doomed \ {c}
<1>1. PICK c \in proc[p].doomed :
             /\ whole' = whole \ {c}
             /\ proc' = [proc EXCEPT ![p].doomed = @ \ {c}]
  BY DEF Unlink, Newest
<1> DEFINE rest == proc[p].doomed \ {c}
<1>2. proc \in Procs /\ rest \in SUBSET Checkpoints
  BY TypeOfProc DEF TypeOK, Procs
<1>3. proc' = [proc EXCEPT ![p].doomed = rest]
  BY <1>1, <1>2 DEF Procs, Processes
<1>4. proc[p].pc = "unlink"
  BY DEF Unlink, At
<1> HIDE DEF rest
<1>5. proc' \in Procs
  BY <1>2, <1>3, SetDoomed, Zenon
<1>6. Alone(p) /\ Fields(p, "unlink", proc[p].want, proc[p].best) /\ SamePassed(p)
      /\ proc'[p].seen = proc[p].seen /\ proc'[p].doomed = rest
  BY <1>2, <1>3, <1>4 DEF Procs, Processes, Alone, Fields, SamePassed
<1> QED BY <1>1, <1>5, <1>6 DEF Unlink, TypeOK, Procs, rest

LEMMA StepToIdle ==
  ASSUME TypeOK, NEW p \in Sessions, Pruned(p) \/ Render(p) \/ Killed(p)
  PROVE  TypeOK' /\ Alone(p) /\ proc'[p] = Idle
<1>1. proc' = [proc EXCEPT ![p] = Idle]
  BY DEF Pruned, Render, Killed
<1>2. proc' \in [Sessions -> Processes] /\ proc'[p] = Idle /\ Alone(p)
  BY <1>1, IdleType, TypeProcStep
<1>3. left' \in SUBSET Checkpoints
  BY TypeOfProc DEF Pruned, Render, Killed, TypeOK
<1> QED BY <1>2, <1>3 DEF Pruned, Render, Killed, TypeOK

LEMMA StepRestore ==
  ASSUME TypeOK, NEW p \in Sessions, Restore(p)
  PROVE  /\ TypeOK' /\ Alone(p)
         /\ \E want \in SUBSET Sessions, best \in 0..MaxTime :
              /\ proc'[p] = [Idle EXCEPT !.pc = "readdir", !.want = want, !.best = best]
              /\ best > 0 => \E b \in finished : b.by \in want /\ b.at = best
<1>1. PICK want \in {Sessions} \cup {{s} : s \in Sessions} :
        LET known == {c \in finished : c.by \in want}
        IN  \E best \in IF known = {} THEN {0} ELSE {c.at : c \in Newest(known)} :
              proc' = [proc EXCEPT ![p] = [Idle EXCEPT !.pc = "readdir", !.want = want, !.best = best]]
  BY DEF Restore
<1>2. want \in SUBSET Sessions
  OBVIOUS
<1>3. PICK best \in LET known == {c \in finished : c.by \in want}
                   IN  IF known = {} THEN {0} ELSE {c.at : c \in Newest(known)} :
             proc' = [proc EXCEPT ![p] = [Idle EXCEPT !.pc = "readdir", !.want = want, !.best = best]]
  BY <1>1, Zenon
<1>4. /\ best \in 0..MaxTime
      /\ best > 0 => \E b \in finished : b.by \in want /\ b.at = best
  BY <1>2, NewestKnown
<1> DEFINE q == [Idle EXCEPT !.pc = "readdir", !.want = want, !.best = best]
<1>5. q \in Processes
  BY <1>2, <1>4, IdleType DEF Idle, Processes, Steps
<1>6. proc' \in [Sessions -> Processes] /\ proc'[p] = q /\ Alone(p)
  BY <1>3, <1>5, TypeProcStep
<1> QED BY <1>2, <1>4, <1>6 DEF Restore, TypeOK

\* The choice of findLatestCheckpoint and findCheckpointById.
Chosen(p) ==
  /\ SamePassed(p)
  /\ \/ /\ Candidates(p) = {}
        /\ Fields(p, "loaded", proc[p].want, proc[p].best)
        /\ proc'[p].id = proc[p].id
     \/ \E c \in Newest(Candidates(p)) :
          /\ Fields(p, "load", proc[p].want, proc[p].best)
          /\ proc'[p].id = c

LEMMA CandidatesType ==
  ASSUME TypeOK, NEW p \in Sessions, NEW c \in Newest(Candidates(p))
  PROVE  /\ c \in Checkpoints /\ c \in proc[p].seen /\ c.by \in proc[p].want
         /\ \A d \in Candidates(p) : d.at <= c.at
BY TypeOfProc DEF Newest, Candidates

LEMMA StepPick ==
  ASSUME TypeOK, NEW p \in Sessions, Pick(p)
  PROVE  /\ TypeOK' /\ Alone(p) /\ Chosen(p)
         /\ proc'[p].seen = {} /\ proc'[p].doomed = proc[p].doomed
<1>t. proc \in Procs
  BY DEF TypeOK, Procs
<1>1. CASE Candidates(p) = {} /\ proc' = [proc EXCEPT ![p].pc = "loaded", ![p].seen = {}]
  <2> DEFINE f == [proc EXCEPT ![p].pc = "loaded"]
  <2>1. proc' = [f EXCEPT ![p].seen = {}]
    BY <1>1
  <2>2. f \in Procs
    <3>1. "loaded" \in Steps
      BY DEF Steps
    <3> QED BY <1>t, <3>1, SetPc, Zenon
  <2>3. {} \in SUBSET Checkpoints
    OBVIOUS
  <2>4. /\ Alone(p) /\ Fields(p, "loaded", proc[p].want, proc[p].best) /\ SamePassed(p)
        /\ proc'[p].id = proc[p].id
        /\ proc'[p].seen = {} /\ proc'[p].doomed = proc[p].doomed
    BY <1>t, <1>1 DEF Procs, Processes, Alone, Fields, SamePassed
  <2> HIDE DEF f
  <2>5. [f EXCEPT ![p].seen = {}] \in Procs
    BY <2>2, <2>3, SetSeen, Zenon
  <2> QED BY <1>1, <2>1, <2>4, <2>5 DEF Pick, TypeOK, Procs, Chosen
<1>2. ASSUME NEW c \in Newest(Candidates(p)),
             proc' = [proc EXCEPT ![p].pc = "load", ![p].id = c, ![p].seen = {}]
      PROVE  /\ TypeOK' /\ Alone(p) /\ Chosen(p)
             /\ proc'[p].seen = {} /\ proc'[p].doomed = proc[p].doomed
  <2> DEFINE f == [proc EXCEPT ![p].pc = "load"]
             g == [f EXCEPT ![p].id = c]
  <2>1. proc' = [g EXCEPT ![p].seen = {}]
    BY <1>2
  <2>2. c \in Checkpoints \cup {None} /\ {} \in SUBSET Checkpoints /\ "load" \in Steps
    BY CandidatesType DEF Steps
  <2>3. f \in Procs
    BY <1>t, <2>2, SetPc, Zenon
  <2>4. /\ Alone(p) /\ Fields(p, "load", proc[p].want, proc[p].best) /\ SamePassed(p)
        /\ proc'[p].id = c
        /\ proc'[p].seen = {} /\ proc'[p].doomed = proc[p].doomed
    BY <1>t, <1>2 DEF Procs, Processes, Alone, Fields, SamePassed
  <2> HIDE DEF f
  <2>5. g \in Procs
    BY <2>2, <2>3, SetId, Zenon
  <2> HIDE DEF g
  <2>6. [g EXCEPT ![p].seen = {}] \in Procs
    BY <2>2, <2>5, SetSeen, Zenon
  <2> QED BY <2>1, <2>4, <2>6 DEF Pick, TypeOK, Procs, Chosen
<1> QED BY <1>1, <1>2 DEF Pick

LEMMA StepLoad ==
  ASSUME TypeOK, NEW p \in Sessions, Load(p)
  PROVE  /\ TypeOK' /\ Alone(p)
         /\ Fields(p, "loaded", proc[p].want, proc[p].best) /\ SamePassed(p)
         /\ proc'[p].id = IF proc[p].id \in whole THEN proc[p].id ELSE None
         /\ proc'[p].seen = proc[p].seen /\ proc'[p].doomed = proc[p].doomed
<1> DEFINE f == [proc EXCEPT ![p].pc = "loaded"]
           id == IF proc[p].id \in whole THEN proc[p].id ELSE None
<1>1. proc \in Procs /\ id \in Checkpoints \cup {None} /\ "loaded" \in Steps
  BY TypeOfProc DEF TypeOK, Procs, Steps
<1>2. proc' = [f EXCEPT ![p].id = id]
  BY <1>1 DEF Load, Procs, Processes
<1>3. f \in Procs
  BY <1>1, SetPc, Zenon
<1> HIDE DEF id
<1>4. /\ Alone(p) /\ Fields(p, "loaded", proc[p].want, proc[p].best) /\ SamePassed(p)
      /\ proc'[p].id = id
      /\ proc'[p].seen = proc[p].seen /\ proc'[p].doomed = proc[p].doomed
  BY <1>1, <1>2 DEF Procs, Processes, Alone, Fields, SamePassed
<1> HIDE DEF f
<1>5. [f EXCEPT ![p].id = id] \in Procs
  BY <1>1, <1>3, SetId, Zenon
<1> QED BY <1>2, <1>4, <1>5 DEF Load, TypeOK, Procs, id

\* The calls that fail.
LEMMA StepReaddirFails ==
  ASSUME TypeOK, NEW p \in Sessions, ReaddirFails(p)
  PROVE  /\ TypeOK' /\ Alone(p)
         /\ Fields(p, "list", proc[p].want, proc[p].best)
         /\ proc'[p].passed = proc[p].passed \cup whole
         /\ proc'[p].seen = proc[p].seen /\ proc'[p].doomed = proc[p].doomed
<1> DEFINE f == [proc EXCEPT ![p].pc = "list"]
           passed == proc[p].passed \cup whole
<1>1. proc \in Procs /\ "list" \in Steps /\ passed \in SUBSET Checkpoints
  BY TypeOfProc DEF TypeOK, Procs, Steps
<1>2. proc' = [f EXCEPT ![p].passed = passed]
  BY <1>1 DEF ReaddirFails, Procs, Processes
<1>3. f \in Procs
  BY <1>1, SetPc, Zenon
<1> HIDE DEF passed
<1>4. /\ Alone(p) /\ Fields(p, "list", proc[p].want, proc[p].best)
      /\ proc'[p].passed = passed
      /\ proc'[p].seen = proc[p].seen /\ proc'[p].doomed = proc[p].doomed
  BY <1>1, <1>2 DEF Procs, Processes, Alone, Fields
<1> HIDE DEF f
<1>5. [f EXCEPT ![p].passed = passed] \in Procs
  BY <1>1, <1>3, SetPassed, Zenon
<1> QED BY <1>2, <1>4, <1>5 DEF ReaddirFails, TypeOK, Procs, passed

LEMMA StepReadFails ==
  ASSUME TypeOK, NEW p \in Sessions, ReadFails(p)
  PROVE  /\ TypeOK' /\ Alone(p)
         /\ Fields(p, "list", proc[p].want, proc[p].best)
         /\ proc'[p].seen = proc[p].seen /\ proc'[p].doomed = proc[p].doomed
         /\ \E c \in proc[p].todo : /\ proc'[p].todo = proc[p].todo \ {c}
                                     /\ proc'[p].passed = proc[p].passed \cup {c}
<1>1. PICK c \in proc[p].todo :
        proc' = [proc EXCEPT ![p].todo = @ \ {c}, ![p].passed = @ \cup {c}]
  BY DEF ReadFails
<1> DEFINE todo == proc[p].todo \ {c}
           passed == proc[p].passed \cup {c}
           f == [proc EXCEPT ![p].todo = todo]
<1>2. proc \in Procs /\ todo \in SUBSET Checkpoints /\ passed \in SUBSET Checkpoints
  BY TypeOfProc DEF TypeOK, Procs
<1>3. proc' = [f EXCEPT ![p].passed = passed]
  BY <1>1, <1>2 DEF Procs, Processes
<1>4. /\ Alone(p) /\ Fields(p, "list", proc[p].want, proc[p].best)
      /\ proc'[p].seen = proc[p].seen /\ proc'[p].doomed = proc[p].doomed
      /\ proc'[p].todo = todo /\ proc'[p].passed = passed
  <2>1. proc[p].pc = "list"
    BY DEF ReadFails, At
  <2> HIDE DEF passed, todo
  <2> QED BY <1>2, <1>3, <2>1 DEF Procs, Processes, Alone, Fields
<1>5. f \in Procs
  BY <1>2, SetTodo, Zenon
<1> HIDE DEF f, passed
<1>6. [f EXCEPT ![p].passed = passed] \in Procs
  BY <1>2, <1>5, SetPassed, Zenon
<1> QED BY <1>3, <1>4, <1>6 DEF ReadFails, TypeOK, Procs, passed

LEMMA StepUnlinkFails ==
  ASSUME TypeOK, NEW p \in Sessions, UnlinkFails(p)
  PROVE  /\ TypeOK' /\ Alone(p)
         /\ Fields(p, "unlink", proc[p].want, proc[p].best)
         /\ proc'[p].seen = proc[p].seen
         /\ \E c \in proc[p].doomed : /\ proc'[p].doomed = proc[p].doomed \ {c}
                                       /\ proc'[p].passed = proc[p].passed \cup {c}
<1>1. PICK c \in proc[p].doomed :
        proc' = [proc EXCEPT ![p].doomed = @ \ {c}, ![p].passed = @ \cup {c}]
  BY DEF UnlinkFails, Newest
<1> DEFINE rest == proc[p].doomed \ {c}
           passed == proc[p].passed \cup {c}
           f == [proc EXCEPT ![p].doomed = rest]
<1>2. proc \in Procs /\ rest \in SUBSET Checkpoints /\ passed \in SUBSET Checkpoints
  BY TypeOfProc DEF TypeOK, Procs
<1>3. proc' = [f EXCEPT ![p].passed = passed]
  BY <1>1, <1>2 DEF Procs, Processes
<1>4. /\ Alone(p) /\ Fields(p, "unlink", proc[p].want, proc[p].best)
      /\ proc'[p].seen = proc[p].seen
      /\ proc'[p].doomed = rest /\ proc'[p].passed = passed
  <2>1. proc[p].pc = "unlink"
    BY DEF UnlinkFails, At
  <2> HIDE DEF passed, rest
  <2> QED BY <1>2, <1>3, <2>1 DEF Procs, Processes, Alone, Fields
<1>5. f \in Procs
  BY <1>2, SetDoomed, Zenon
<1> HIDE DEF f, passed
<1>6. [f EXCEPT ![p].passed = passed] \in Procs
  BY <1>2, <1>5, SetPassed, Zenon
<1> QED BY <1>3, <1>4, <1>6 DEF UnlinkFails, TypeOK, Procs, passed

LEMMA StepLoadFails ==
  ASSUME TypeOK, NEW p \in Sessions, LoadFails(p)
  PROVE  /\ TypeOK' /\ Alone(p)
         /\ Fields(p, "loaded", proc[p].want, proc[p].best)
         /\ proc'[p].passed = proc[p].passed \cup {proc[p].id}
         /\ proc'[p].seen = proc[p].seen /\ proc'[p].doomed = proc[p].doomed
<1> DEFINE f == [proc EXCEPT ![p].pc = "loaded"]
           g == [f EXCEPT ![p].id = None]
           passed == proc[p].passed \cup {proc[p].id}
<1>1. proc \in Procs /\ "loaded" \in Steps /\ None \in Checkpoints \cup {None}
  BY DEF TypeOK, Procs, Steps
<1>2. passed \in SUBSET Checkpoints
  BY TypeOfProc DEF LoadFails, PassOver, TypeOK
<1>3. proc' = [g EXCEPT ![p].passed = passed]
  BY <1>1 DEF LoadFails, Procs, Processes
<1>4. f \in Procs
  BY <1>1, SetPc, Zenon
<1> HIDE DEF passed
<1>5. /\ Alone(p) /\ Fields(p, "loaded", proc[p].want, proc[p].best)
      /\ proc'[p].passed = passed
      /\ proc'[p].seen = proc[p].seen /\ proc'[p].doomed = proc[p].doomed
  BY <1>1, <1>3 DEF Procs, Processes, Alone, Fields
<1> HIDE DEF f
<1>6. g \in Procs
  BY <1>1, <1>4, SetId, Zenon
<1> HIDE DEF g
<1>7. [g EXCEPT ![p].passed = passed] \in Procs
  BY <1>2, <1>6, SetPassed, Zenon
<1> QED BY <1>3, <1>5, <1>7 DEF LoadFails, TypeOK, Procs, passed

-----------------------------------------------------------------------------
(* Counting checkpoints.                                                   *)

LEMMA CheckpointsFinite == IsFiniteSet(Checkpoints)
<1> DEFINE pairs == Sessions \X Times
           f == [x \in pairs |-> [by |-> x[1], at |-> x[2]]]
<1>1. IsFiniteSet(Times)
  BY HandoffAssumption, FS_Interval DEF Times
<1>2. IsFiniteSet(pairs)
  BY <1>1, HandoffAssumption, FS_Product
<1>3. f \in Surjection(pairs, Checkpoints)
  <2>1. f \in [pairs -> Checkpoints]
    BY DEF Checkpoints
  <2>2. ASSUME NEW c \in Checkpoints PROVE \E x \in pairs : f[x] = c
    <3>1. <<c.by, c.at>> \in pairs /\ c = [by |-> c.by, at |-> c.at]
      BY DEF Checkpoints
    <3>2. f[<<c.by, c.at>>] = c
      BY <3>1
    <3> QED BY <3>1, <3>2
  <2> QED BY <2>1, <2>2 DEF Surjection
<1> QED BY <1>2, <1>3, FS_Surjection

\* At least `keep` other checkpoints that are not older than c were finished.
Enough(c) == Keep > 0 /\ Cardinality({d \in finished \ {c} : d.at >= c.at}) >= Keep

\* More than `keep` checkpoints that are not older than t were finished.
Behind(t) == Keep > 0 /\ Cardinality({d \in finished : d.at >= t}) > Keep

LEMMA Counted ==
  ASSUME NEW S \in SUBSET Checkpoints, NEW T \in SUBSET S
  PROVE  /\ IsFiniteSet(S) /\ IsFiniteSet(T)
         /\ Cardinality(S) \in Nat /\ Cardinality(T) \in Nat
         /\ Cardinality(T) <= Cardinality(S)
BY CheckpointsFinite, FS_Subset, FS_CardinalityType

LEMMA EnoughLasts ==
  ASSUME finished \subseteq finished', finished' \subseteq Checkpoints, NEW c, Enough(c)
  PROVE  Enough(c)'
<1> DEFINE S == {d \in finished' \ {c} : d.at >= c.at}
           T == {d \in finished \ {c} : d.at >= c.at}
<1>1. Cardinality(T) <= Cardinality(S) /\ Cardinality(S) \in Nat /\ Cardinality(T) \in Nat
  BY Counted
<1> QED BY <1>1, HandoffAssumption DEF Enough

LEMMA BehindLasts ==
  ASSUME finished \subseteq finished', finished' \subseteq Checkpoints, NEW t, Behind(t)
  PROVE  Behind(t)'
<1> DEFINE S == {d \in finished' : d.at >= t}
           T == {d \in finished : d.at >= t}
<1>1. Cardinality(T) <= Cardinality(S) /\ Cardinality(S) \in Nat /\ Cardinality(T) \in Nat
  BY Counted
<1> QED BY <1>1, HandoffAssumption DEF Behind

\* What has enough others that are newer is itself one too many.
LEMMA EnoughIsBehind ==
  ASSUME TypeOK, NEW c \in finished, Enough(c), NEW t \in Nat, c.at >= t
  PROVE  Behind(t)
<1> DEFINE S == {d \in finished : d.at >= t}
           T == {d \in finished \ {c} : d.at >= c.at}
<1>0. \A d \in finished : d \in Checkpoints /\ d.at \in Nat
  BY HandoffAssumption DEF TypeOK, Checkpoints, Times
<1>1. T \cup {c} \subseteq S /\ S \subseteq Checkpoints /\ c \notin T
  BY <1>0
<1>2. /\ IsFiniteSet(T) /\ Cardinality(T) \in Nat /\ Cardinality(S) \in Nat
      /\ Cardinality(T \cup {c}) <= Cardinality(S)
  BY <1>1, Counted
<1>3. Cardinality(T \cup {c}) = Cardinality(T) + 1
  BY <1>1, <1>2, FS_AddElement
<1> QED BY <1>2, <1>3, HandoffAssumption DEF Enough, Behind

\* Pruning dooms only what has enough others that are newer.
LEMMA DoomedHaveEnough ==
  ASSUME TypeOK, NEW S \in SUBSET finished, NEW D \in Prunable(S), NEW c \in D
  PROVE  Enough(c)
<1> DEFINE T == {d \in finished \ {c} : d.at >= c.at}
<1>1. /\ Keep # 0 /\ D \subseteq S /\ Cardinality(S \ D) = Keep
      /\ \A d \in S \ D : c.at <= d.at
  BY DEF Prunable
<1>2. \A d \in finished : d \in Checkpoints /\ d.at \in Nat
  BY HandoffAssumption DEF TypeOK, Checkpoints, Times
<1>3. S \ D \subseteq T /\ T \subseteq Checkpoints
  BY <1>1, <1>2
<1>4. Cardinality(S \ D) <= Cardinality(T)
  BY <1>3, Counted
<1> QED BY <1>1, <1>4, HandoffAssumption DEF Enough

\* What pruning leaves of a listing is at most `keep`.
LEMMA LeftAreFew ==
  ASSUME NEW S \in SUBSET Checkpoints, NEW D \in Prunable(S), Keep > 0
  PROVE  Cardinality(S \ D) <= Keep
<1>1. Cardinality(S) \in Nat /\ Cardinality(S \ D) <= Cardinality(S) /\ Cardinality(S \ D) \in Nat
  BY Counted
<1>2. CASE Cardinality(S) <= Keep
  BY <1>1, <1>2, HandoffAssumption
<1>3. CASE ~(Cardinality(S) <= Keep)
  <2>1. Cardinality(S \ D) = Keep
    BY <1>3, HandoffAssumption DEF Prunable
  <2> QED BY <2>1, HandoffAssumption
<1> QED BY <1>2, <1>3

-----------------------------------------------------------------------------
(* The invariant.                                                          *)

\* A checkpoint that the restore of p may give.
Wanted(p, c) == c \in finished /\ c.by \in proc[p].want /\ c.at >= proc[p].best

\* One such that it could not read.
Spurned(p) == \E c \in proc[p].passed : Wanted(p, c)

\* What a restore has, step by step, unless too many have been finished since or
\* it could not read one.
Reaching(p) ==
  LET q == proc[p]
  IN  q.best > 0 =>
        /\ q.pc = "readdir" => \E c \in finished : Wanted(p, c)
        /\ q.pc = "list" =>
             Behind(q.best) \/ \E c \in q.todo \cup q.seen \cup q.passed : Wanted(p, c)
        /\ q.pc \in {"load", "loaded"} =>
             Behind(q.best) \/ (q.id # None /\ Wanted(p, q.id)) \/ Spurned(p)

\* What holds of one process.
Sound(p) ==
  /\ Taking(p)
  /\ proc[p].seen \subseteq finished
  /\ \A c \in proc[p].doomed : Enough(c)
  /\ Reaching(p)

\* What holds of the directory: only what has enough newer ones is gone.
Kept == whole \subseteq finished /\ \A c \in finished : c \in whole \/ Enough(c)

\* Until the process that wrote last has pruned, it knows all there is to remove
\* but what it could not read or remove.
Bounded ==
  Keep > 0 =>
    /\ last = None => Cardinality(whole \ left) <= Keep
    /\ \A p \in Sessions :
         last = p =>
           /\ (proc[p].pc = "list" /\ proc[p].want = {})
                => whole \subseteq proc[p].todo \cup proc[p].seen \cup proc[p].passed
           /\ proc[p].pc = "unlink"
                => \E K \in SUBSET Checkpoints :
                     /\ whole \subseteq K \cup proc[p].doomed \cup proc[p].passed
                     /\ Cardinality(K) <= Keep

IInv == TypeOK /\ (\A p \in Sessions : Sound(p)) /\ Kept /\ Bounded

LEMMA IdleFields ==
  /\ Idle.pc = "idle" /\ Idle.id = None /\ Idle.want = {} /\ Idle.todo = {} /\ Idle.seen = {}
  /\ Idle.doomed = {} /\ Idle.best = 0
BY DEF Idle

LEMMA InvInit == Init => IInv
<1> SUFFICES ASSUME Init PROVE IInv
  OBVIOUS
<1>1. \A p \in Sessions : proc[p] = Idle
  BY DEF Init
<1>2. finished = {} /\ whole = {} /\ last = None
  BY DEF Init
<1>3. ~(0 > 0) /\ Cardinality({}) = 0
  BY FS_EmptySet
<1>4. \A p \in Sessions : Sound(p)
  BY <1>1, <1>3, IdleFields DEF Sound, Taking, Reaching
<1>5. Kept
  BY <1>2 DEF Kept
<1>6. Bounded
  <2>1. whole \ left = {}
    BY <1>2
  <2> QED BY <1>2, <1>3, <2>1, HandoffAssumption DEF Bounded
<1> QED BY TypeInit, <1>4, <1>5, <1>6 DEF IInv

LEMMA BehindStays ==
  ASSUME NEW p \in Sessions, Behind(proc[p].best), proc'[p].best = proc[p].best,
         finished \subseteq finished', finished' \subseteq Checkpoints
  PROVE  Behind(proc[p].best)'
<1>1. PICK t : t = proc[p].best
  OBVIOUS
<1>2. Behind(t)'
  BY <1>1, BehindLasts
<1> QED BY <1>1, <1>2 DEF Behind

\* A process that does not move stays sound while others finish.
LEMMA SoundLasts ==
  ASSUME TypeOK, NEW p \in Sessions, Sound(p), proc'[p] = proc[p],
         finished \subseteq finished', finished' \subseteq Checkpoints
  PROVE  Sound(p)'
<1>1. Taking(p)' /\ proc'[p].seen \subseteq finished'
  BY DEF Sound, Taking
<1>2. \A c \in proc'[p].doomed : Enough(c)'
  BY EnoughLasts DEF Sound
<1>3. \A c : Wanted(p, c) => Wanted(p, c)'
  BY DEF Wanted
<1>4. Behind(proc[p].best) => Behind(proc[p].best)'
  BY BehindStays
<1>5. Reaching(p)'
  <2>1. CASE proc[p].pc = "readdir"
    BY <1>3, <2>1 DEF Sound, Reaching
  <2>2. CASE proc[p].pc = "list"
    BY <1>3, <1>4, <2>2 DEF Sound, Reaching
  <2>3. CASE proc[p].pc \in {"load", "loaded"}
    BY <1>3, <1>4, <2>3 DEF Sound, Reaching, Spurned
  <2> QED BY <2>1, <2>2, <2>3 DEF Reaching
<1> QED BY <1>1, <1>2, <1>5 DEF Sound

LEMMA OthersSound ==
  ASSUME IInv, NEW p \in Sessions, Alone(p), Sound(p)',
         finished \subseteq finished', finished' \subseteq Checkpoints
  PROVE  \A q \in Sessions : Sound(q)'
<1> SUFFICES ASSUME NEW q \in Sessions \ {p} PROVE Sound(q)'
  OBVIOUS
<1> QED BY SoundLasts DEF IInv, Alone

\* A process that becomes idle, or begins, has nothing to keep.
LEMMA FreshSound ==
  ASSUME NEW p \in Sessions, proc'[p].seen = {}, proc'[p].doomed = {}, proc'[p].best = 0,
         proc'[p].pc \in {"git", "write"} => proc'[p].id \in Checkpoints
  PROVE  Sound(p)'
BY DEF Sound, Taking, Reaching

LEMMA SoundTake ==
  ASSUME IInv, NEW p \in Sessions, Take(p)
  PROVE  TypeOK' /\ \A q \in Sessions : Sound(q)'
<1>1. /\ TypeOK' /\ Alone(p)
      /\ proc'[p] = [Idle EXCEPT !.pc = "git", !.id = [by |-> p, at |-> now]]
  BY TypeTake DEF IInv
<1>2. [by |-> p, at |-> now] \in Checkpoints
  BY DEF IInv, TypeOK, Checkpoints
<1>3. Sound(p)'
  BY <1>1, <1>2, FreshSound DEF Idle
<1>4. finished' = finished /\ finished \subseteq Checkpoints
  BY DEF Take, IInv, TypeOK
<1> QED BY <1>1, <1>3, <1>4, OthersSound

LEMMA SoundOpen ==
  ASSUME IInv, NEW p \in Sessions, Open(p)
  PROVE  TypeOK' /\ \A q \in Sessions : Sound(q)'
<1>1. Sound(p) /\ TypeOK
  BY DEF IInv
<1>2. /\ TypeOK' /\ Alone(p)
      /\ proc'[p].pc = "write" /\ proc'[p].id = proc[p].id
      /\ proc'[p].seen = proc[p].seen /\ proc'[p].doomed = proc[p].doomed
  BY <1>1, StepOpen DEF Sound
<1>3. finished' = finished /\ finished \subseteq Checkpoints
  BY <1>1 DEF Open, TypeOK
<1>4. \A c \in proc'[p].doomed : Enough(c)'
  BY <1>1, <1>2, <1>3, EnoughLasts DEF Sound
<1>5. proc[p].id \in Checkpoints
  BY <1>1 DEF Sound, Taking, Open, At
<1>6. Reaching(p)'
  BY <1>2 DEF Reaching
<1>7. Sound(p)'
  BY <1>1, <1>2, <1>3, <1>4, <1>5, <1>6 DEF Sound, Taking
<1> QED BY <1>2, <1>3, <1>7, OthersSound

LEMMA SoundWrite ==
  ASSUME IInv, NEW p \in Sessions, Write(p)
  PROVE  TypeOK' /\ \A q \in Sessions : Sound(q)'
<1>1. Taking(p) /\ TypeOK
  BY DEF IInv, Sound
<1>2. TypeOK' /\ Alone(p) /\ proc'[p] = [Idle EXCEPT !.pc = "readdir"]
  BY <1>1, StepWrite
<1>3. Sound(p)'
  BY <1>2, FreshSound DEF Idle
<1>4. finished \subseteq finished' /\ finished' \subseteq Checkpoints
  BY <1>2 DEF Write, TypeOK
<1> QED BY <1>2, <1>3, <1>4, OthersSound

\* The other steps finish nothing: only p's own record is to be looked at.
LEMMA MovedSound ==
  ASSUME IInv, NEW p \in Sessions, Alone(p), finished' = finished,
         proc'[p].pc \notin {"git", "write"},
         proc'[p].seen \subseteq finished, \A c \in proc'[p].doomed : Enough(c),
         Reaching(p)'
  PROVE  \A q \in Sessions : Sound(q)'
<1>1. finished \subseteq Checkpoints
  BY DEF IInv, TypeOK
<1>2. \A c \in proc'[p].doomed : Enough(c)'
  BY <1>1, EnoughLasts
<1>3. Sound(p)'
  BY <1>2 DEF Sound, Taking
<1> QED BY <1>1, <1>3, OthersSound

\* A restore that has come no further has all it had.
LEMMA WantedStays ==
  ASSUME NEW p \in Sessions, finished' = finished, proc'[p].want = proc[p].want,
         proc'[p].best = proc[p].best, NEW c
  PROVE  (Wanted(p, c) <=> Wanted(p, c)') /\ (Behind(proc[p].best) <=> Behind(proc[p].best)')
BY DEF Wanted, Behind

LEMMA SpurnedStays ==
  ASSUME NEW p \in Sessions, finished' = finished, proc'[p].want = proc[p].want,
         proc'[p].best = proc[p].best, proc[p].passed \subseteq proc'[p].passed, Spurned(p)
  PROVE  Spurned(p)'
BY WantedStays DEF Spurned

\* A wanted checkpoint that is gone has been overtaken.
LEMMA GoneIsBehind ==
  ASSUME IInv, NEW p \in Sessions, NEW c, Wanted(p, c), c \notin whole
  PROVE  Behind(proc[p].best)
<1>1. c \in finished /\ Enough(c) /\ c.at >= proc[p].best
  BY DEF IInv, Kept, Wanted
<1>2. proc[p].best \in Nat /\ TypeOK
  BY TypeOfProc DEF IInv
<1> QED BY <1>1, <1>2, EnoughIsBehind

LEMMA SoundReaddir ==
  ASSUME IInv, NEW p \in Sessions, Readdir(p)
  PROVE  TypeOK' /\ \A q \in Sessions : Sound(q)'
<1>1. Sound(p) /\ TypeOK
  BY DEF IInv
<1>2. /\ TypeOK' /\ Alone(p)
      /\ proc'[p].pc = "list" /\ proc'[p].want = proc[p].want /\ proc'[p].best = proc[p].best
      /\ proc'[p].todo = torn \cup whole
      /\ proc'[p].seen = proc[p].seen /\ proc'[p].doomed = proc[p].doomed
  BY <1>1, StepReaddir DEF Fields
<1>3. finished' = finished /\ proc[p].pc = "readdir"
  BY DEF Readdir, At
<1>4. ASSUME proc[p].best > 0
      PROVE  Behind(proc[p].best) \/ \E c \in torn \cup whole : Wanted(p, c)
  <2>1. PICK c \in finished : Wanted(p, c)
    BY <1>1, <1>3, <1>4 DEF Sound, Reaching
  <2> QED BY <2>1, GoneIsBehind
<1>5. Reaching(p)'
  BY <1>2, <1>3, <1>4, WantedStays DEF Reaching
<1> QED BY <1>1, <1>2, <1>3, <1>5, MovedSound DEF Sound

LEMMA SoundReadNext ==
  ASSUME IInv, NEW p \in Sessions, ReadNext(p)
  PROVE  TypeOK' /\ \A q \in Sessions : Sound(q)'
<1>1. Sound(p) /\ TypeOK /\ whole \subseteq finished
  BY DEF IInv, Kept
<1>2. /\ TypeOK' /\ Alone(p)
      /\ proc'[p].pc = "list" /\ proc'[p].want = proc[p].want /\ proc'[p].best = proc[p].best
      /\ proc'[p].doomed = proc[p].doomed /\ proc'[p].passed = proc[p].passed
  BY <1>1, StepReadNext DEF Fields, SamePassed
<1>3. PICK c \in proc[p].todo :
        /\ proc'[p].todo = proc[p].todo \ {c}
        /\ proc'[p].seen = IF c \in whole THEN proc[p].seen \cup {c} ELSE proc[p].seen
  BY <1>1, StepReadNext
<1>4. finished' = finished /\ proc[p].pc = "list"
  BY DEF ReadNext, At
<1>5. proc'[p].seen \subseteq finished
  BY <1>1, <1>3 DEF Sound
<1>6. ASSUME proc[p].best > 0
      PROVE  \/ Behind(proc[p].best)
             \/ \E d \in proc'[p].todo \cup proc'[p].seen \cup proc'[p].passed : Wanted(p, d)
  <2>1. CASE ~Behind(proc[p].best)
    <3>1. PICK d \in proc[p].todo \cup proc[p].seen \cup proc[p].passed : Wanted(p, d)
      BY <1>1, <1>4, <1>6, <2>1 DEF Sound, Reaching
    <3>2. d \in whole
      BY <2>1, <3>1, GoneIsBehind
    <3> QED BY <1>2, <1>3, <3>1, <3>2
  <2> QED BY <2>1
<1>7. Reaching(p)'
  BY <1>2, <1>4, <1>6, WantedStays DEF Reaching
<1> QED BY <1>1, <1>2, <1>4, <1>5, <1>7, MovedSound DEF Sound

LEMMA SoundReaddirFails ==
  ASSUME IInv, NEW p \in Sessions, ReaddirFails(p)
  PROVE  TypeOK' /\ \A q \in Sessions : Sound(q)'
<1>1. Sound(p) /\ TypeOK
  BY DEF IInv
<1>2. /\ TypeOK' /\ Alone(p)
      /\ proc'[p].pc = "list" /\ proc'[p].want = proc[p].want /\ proc'[p].best = proc[p].best
      /\ proc'[p].passed = proc[p].passed \cup whole
      /\ proc'[p].seen = proc[p].seen /\ proc'[p].doomed = proc[p].doomed
  BY <1>1, StepReaddirFails DEF Fields
<1>3. finished' = finished /\ proc[p].pc = "readdir"
  BY DEF ReaddirFails, At
<1>4. ASSUME proc[p].best > 0
      PROVE  Behind(proc[p].best) \/ \E c \in proc'[p].passed : Wanted(p, c)
  <2>1. PICK c \in finished : Wanted(p, c)
    BY <1>1, <1>3, <1>4 DEF Sound, Reaching
  <2> QED BY <1>2, <2>1, GoneIsBehind
<1>5. Reaching(p)'
  BY <1>2, <1>3, <1>4, WantedStays DEF Reaching
<1> QED BY <1>1, <1>2, <1>3, <1>5, MovedSound DEF Sound

LEMMA SoundReadFails ==
  ASSUME IInv, NEW p \in Sessions, ReadFails(p)
  PROVE  TypeOK' /\ \A q \in Sessions : Sound(q)'
<1>1. Sound(p) /\ TypeOK
  BY DEF IInv
<1>2. /\ TypeOK' /\ Alone(p)
      /\ proc'[p].pc = "list" /\ proc'[p].want = proc[p].want /\ proc'[p].best = proc[p].best
      /\ proc'[p].seen = proc[p].seen /\ proc'[p].doomed = proc[p].doomed
  BY <1>1, StepReadFails DEF Fields
<1>3. PICK c \in proc[p].todo : /\ proc'[p].todo = proc[p].todo \ {c}
                               /\ proc'[p].passed = proc[p].passed \cup {c}
  BY <1>1, StepReadFails
<1>4. finished' = finished /\ proc[p].pc = "list"
  BY DEF ReadFails, At
<1>5. proc[p].best > 0 =>
        \/ Behind(proc[p].best)
        \/ \E d \in proc'[p].todo \cup proc'[p].seen \cup proc'[p].passed : Wanted(p, d)
  BY <1>1, <1>2, <1>3, <1>4 DEF Sound, Reaching
<1>6. Reaching(p)'
  BY <1>2, <1>4, <1>5, WantedStays DEF Reaching
<1> QED BY <1>1, <1>2, <1>4, <1>6, MovedSound DEF Sound

LEMMA SoundLoadFails ==
  ASSUME IInv, NEW p \in Sessions, LoadFails(p)
  PROVE  TypeOK' /\ \A q \in Sessions : Sound(q)'
<1>1. Sound(p) /\ TypeOK
  BY DEF IInv
<1>2. /\ TypeOK' /\ Alone(p)
      /\ proc'[p].pc = "loaded" /\ proc'[p].want = proc[p].want /\ proc'[p].best = proc[p].best
      /\ proc'[p].passed = proc[p].passed \cup {proc[p].id}
      /\ proc'[p].seen = proc[p].seen /\ proc'[p].doomed = proc[p].doomed
  BY <1>1, StepLoadFails DEF Fields
<1>3. finished' = finished /\ proc[p].pc = "load"
  BY DEF LoadFails, At
<1>4. proc[p].best > 0 => Behind(proc[p].best) \/ \E c \in proc'[p].passed : Wanted(p, c)
  BY <1>1, <1>2, <1>3 DEF Sound, Reaching, Spurned
<1>5. Spurned(p)' \/ Behind(proc[p].best)' \/ ~(proc[p].best > 0)
  BY <1>2, <1>3, <1>4, WantedStays DEF Spurned
<1>6. Reaching(p)'
  BY <1>2, <1>5 DEF Reaching
<1> QED BY <1>1, <1>2, <1>3, <1>6, MovedSound DEF Sound

LEMMA SoundUnlinkFails ==
  ASSUME IInv, NEW p \in Sessions, UnlinkFails(p)
  PROVE  TypeOK' /\ \A q \in Sessions : Sound(q)'
<1>1. Sound(p) /\ TypeOK
  BY DEF IInv
<1>2. /\ TypeOK' /\ Alone(p) /\ proc'[p].pc = "unlink"
      /\ proc'[p].seen = proc[p].seen /\ proc'[p].doomed \subseteq proc[p].doomed
  BY <1>1, StepUnlinkFails DEF Fields
<1>3. finished' = finished
  BY DEF UnlinkFails
<1>4. Reaching(p)'
  BY <1>2 DEF Reaching
<1> QED BY <1>1, <1>2, <1>3, <1>4, MovedSound DEF Sound

LEMMA SoundPrune ==
  ASSUME IInv, NEW p \in Sessions, Prune(p)
  PROVE  TypeOK' /\ \A q \in Sessions : Sound(q)'
<1>1. Sound(p) /\ TypeOK
  BY DEF IInv
<1>2. TypeOK' /\ Alone(p)
  BY <1>1, StepPrune
<1>3. PICK D \in Prunable(proc[p].seen) : proc'[p] = Doomed(p, D)
  BY <1>1, StepPrune
<1>4. /\ proc'[p].pc = "unlink" /\ proc'[p].seen = {} /\ proc'[p].doomed = D /\ proc'[p].best = 0
      /\ finished' = finished
  BY <1>3 DEF Prune, Doomed, Idle
<1>5. \A c \in D : Enough(c)
  BY <1>1, DoomedHaveEnough DEF Sound
<1>6. Reaching(p)'
  BY <1>4 DEF Reaching
<1> QED BY <1>2, <1>4, <1>5, <1>6, MovedSound

LEMMA SoundUnlink ==
  ASSUME IInv, NEW p \in Sessions, Unlink(p)
  PROVE  TypeOK' /\ \A q \in Sessions : Sound(q)'
<1>1. Sound(p) /\ TypeOK
  BY DEF IInv
<1>2. /\ TypeOK' /\ Alone(p) /\ proc'[p].pc = "unlink"
      /\ proc'[p].seen = proc[p].seen /\ proc'[p].doomed \subseteq proc[p].doomed
  BY <1>1, StepUnlink DEF Fields
<1>3. finished' = finished
  BY DEF Unlink
<1>4. Reaching(p)'
  BY <1>2 DEF Reaching
<1> QED BY <1>1, <1>2, <1>3, <1>4, MovedSound DEF Sound

LEMMA SoundToIdle ==
  ASSUME IInv, NEW p \in Sessions, Pruned(p) \/ Render(p) \/ Killed(p)
  PROVE  TypeOK' /\ \A q \in Sessions : Sound(q)'
<1>1. TypeOK' /\ Alone(p) /\ proc'[p] = Idle
  BY StepToIdle DEF IInv
<1>2. Sound(p)'
  BY <1>1, IdleFields, FreshSound
<1>3. finished' = finished /\ finished \subseteq Checkpoints
  BY DEF Pruned, Render, Killed, IInv, TypeOK
<1> QED BY <1>1, <1>2, <1>3, OthersSound

LEMMA SoundRestore ==
  ASSUME IInv, NEW p \in Sessions, Restore(p)
  PROVE  TypeOK' /\ \A q \in Sessions : Sound(q)'
<1>1. TypeOK' /\ Alone(p)
  BY StepRestore DEF IInv
<1>2. PICK want \in SUBSET Sessions, best \in 0..MaxTime :
        /\ proc'[p] = [Idle EXCEPT !.pc = "readdir", !.want = want, !.best = best]
        /\ best > 0 => \E b \in finished : b.by \in want /\ b.at = best
  BY StepRestore DEF IInv
<1>3. /\ proc'[p].pc = "readdir" /\ proc'[p].seen = {} /\ proc'[p].doomed = {}
      /\ proc'[p].want = want /\ proc'[p].best = best /\ finished' = finished
  BY <1>2 DEF Restore, Idle
<1>4. Reaching(p)'
  <2>1. ASSUME best > 0 PROVE \E b \in finished : b.by \in want /\ b.at >= best
    <3>1. PICK b \in finished : b.by \in want /\ b.at = best
      BY <1>2, <2>1
    <3>2. best >= best
      BY HandoffAssumption
    <3> QED BY <3>1, <3>2
  <2> QED BY <1>3, <2>1 DEF Reaching, Wanted
<1> QED BY <1>1, <1>3, <1>4, MovedSound

LEMMA SoundPick ==
  ASSUME IInv, NEW p \in Sessions, Pick(p)
  PROVE  TypeOK' /\ \A q \in Sessions : Sound(q)'
<1>1. Sound(p) /\ TypeOK
  BY DEF IInv
<1>2. TypeOK' /\ Alone(p) /\ Chosen(p) /\ proc'[p].seen = {} /\ proc'[p].doomed = proc[p].doomed
  BY <1>1, StepPick
<1>3. /\ finished' = finished /\ proc[p].pc = "list" /\ proc[p].todo = {}
      /\ proc'[p].passed = proc[p].passed
  BY <1>2 DEF Pick, At, Chosen, SamePassed
<1>4. ASSUME proc[p].best > 0, ~Behind(proc[p].best), ~Spurned(p)
      PROVE  \E d \in Candidates(p) : Wanted(p, d)
  <2>1. PICK d \in proc[p].seen : Wanted(p, d)
    BY <1>1, <1>3, <1>4 DEF Sound, Reaching, Spurned
  <2> QED BY <2>1 DEF Candidates, Wanted
<1>5. CASE Candidates(p) = {} /\ Fields(p, "loaded", proc[p].want, proc[p].best)
  <2>1. proc[p].best > 0 => Behind(proc[p].best) \/ Spurned(p)
    BY <1>4, <1>5
  <2>2. Reaching(p)'
    BY <1>3, <1>5, <2>1, WantedStays, SpurnedStays DEF Reaching, Fields
  <2>3. proc'[p].pc = "loaded"
    BY <1>5 DEF Fields
  <2> QED BY <1>1, <1>2, <1>3, <2>2, <2>3, MovedSound DEF Sound
<1>6. ASSUME NEW c \in Newest(Candidates(p)), Fields(p, "load", proc[p].want, proc[p].best),
             proc'[p].id = c
      PROVE  \A q \in Sessions : Sound(q)'
  <2>1. /\ c \in Checkpoints /\ c \in proc[p].seen /\ c.by \in proc[p].want
        /\ \A d \in Candidates(p) : d.at <= c.at
    BY <1>1, CandidatesType
  <2>2. c \in finished /\ c # None
    BY <1>1, <2>1, HandoffAssumption DEF Sound
  <2>3. ASSUME proc[p].best > 0, ~Behind(proc[p].best), ~Spurned(p) PROVE Wanted(p, c)
    <3>1. PICK d \in Candidates(p) : Wanted(p, d)
      BY <1>4, <2>3
    <3>2. d.at <= c.at /\ d.at >= proc[p].best /\ d \in finished
      BY <2>1, <3>1 DEF Wanted
    <3>3. d.at \in Nat /\ c.at \in Nat /\ proc[p].best \in Nat
      BY <1>1, <2>2, <3>2, TypeOfProc, HandoffAssumption DEF TypeOK, Checkpoints, Times
    <3> QED BY <2>1, <2>2, <3>2, <3>3 DEF Wanted
  <2>4. proc'[p].pc = "load" /\ proc'[p].want = proc[p].want /\ proc'[p].best = proc[p].best
    BY <1>6 DEF Fields
  <2>5. Reaching(p)'
    BY <1>3, <1>6, <2>2, <2>3, <2>4, WantedStays, SpurnedStays DEF Reaching
  <2> QED BY <1>1, <1>2, <1>3, <2>4, <2>5, MovedSound DEF Sound
<1> QED BY <1>2, <1>5, <1>6 DEF Chosen

LEMMA SoundLoad ==
  ASSUME IInv, NEW p \in Sessions, Load(p)
  PROVE  TypeOK' /\ \A q \in Sessions : Sound(q)'
<1>1. Sound(p) /\ TypeOK
  BY DEF IInv
<1>2. /\ TypeOK' /\ Alone(p)
      /\ proc'[p].pc = "loaded" /\ proc'[p].want = proc[p].want /\ proc'[p].best = proc[p].best
      /\ proc'[p].id = IF proc[p].id \in whole THEN proc[p].id ELSE None
      /\ proc'[p].seen = proc[p].seen /\ proc'[p].doomed = proc[p].doomed
      /\ proc'[p].passed = proc[p].passed
  BY <1>1, StepLoad DEF Fields, SamePassed
<1>3. finished' = finished /\ proc[p].pc = "load"
  BY DEF Load, At
<1>4. ASSUME proc[p].best > 0, ~Behind(proc[p].best), ~Spurned(p)
      PROVE  proc'[p].id # None /\ Wanted(p, proc'[p].id)
  <2>1. proc[p].id # None /\ Wanted(p, proc[p].id)
    BY <1>1, <1>3, <1>4 DEF Sound, Reaching
  <2>2. proc[p].id \in whole
    BY <1>4, <2>1, GoneIsBehind
  <2> QED BY <1>2, <2>1, <2>2
<1>5. Reaching(p)'
  BY <1>2, <1>3, <1>4, WantedStays, SpurnedStays DEF Reaching
<1> QED BY <1>1, <1>2, <1>3, <1>5, MovedSound DEF Sound

-----------------------------------------------------------------------------
(* The directory.                                                          *)

LEMMA EnoughStays ==
  ASSUME finished' = finished, NEW c
  PROVE  Enough(c) <=> Enough(c)'
BY DEF Enough

LEMMA KeptStep ==
  ASSUME IInv, [Next]_vars, TypeOK'
  PROVE  Kept'
<1>t. TypeOK /\ Kept /\ \A p \in Sessions : Sound(p)
  BY DEF IInv
<1>1. ASSUME NEW p \in Sessions, Write(p) PROVE Kept'
  <2>1. whole' = whole \cup {proc[p].id} /\ finished' = finished \cup {proc[p].id}
    BY <1>1 DEF Write
  <2>2. finished' \subseteq Checkpoints
    BY DEF TypeOK
  <2>3. \A c \in finished : Enough(c) => Enough(c)'
    BY <2>1, <2>2, EnoughLasts
  <2> QED BY <1>t, <2>1, <2>3 DEF Kept
<1>2. ASSUME NEW p \in Sessions, Unlink(p) PROVE Kept'
  <2>1. PICK c \in proc[p].doomed : whole' = whole \ {c}
    BY <1>t, <1>2, StepUnlink
  <2>2. Enough(c) /\ finished' = finished
    BY <1>t, <1>2 DEF Sound, Unlink
  <2> QED BY <1>t, <2>1, <2>2, EnoughStays DEF Kept
<1>3. CASE UNCHANGED <<whole, finished>>
  BY <1>t, <1>3, EnoughStays DEF Kept
<1>4. \/ \E p \in Sessions : Write(p) \/ Unlink(p)
      \/ UNCHANGED <<whole, finished>>
  BY DEF Next, vars, Tick, Take, Open, Readdir, ReaddirFails, ReadNext, ReadFails, Prune,
         UnlinkFails, Pruned, Restore, Pick, Load, LoadFails, Render, Killed
<1> QED BY <1>1, <1>2, <1>3, <1>4

\* As long as no checkpoint is finished, the directory only loses files; who wrote
\* last knows of all that are left.
LEMMA BoundedLasts ==
  ASSUME IInv, NEW p \in Sessions, Alone(p), last' = last, left' = left, whole' \subseteq whole,
         last = p => /\ (proc'[p].pc = "list" /\ proc'[p].want = {})
                          => whole' \subseteq proc'[p].todo \cup proc'[p].seen \cup proc'[p].passed
                     /\ (proc'[p].pc = "unlink" /\ Keep > 0)
                          => \E K \in SUBSET Checkpoints :
                               /\ whole' \subseteq K \cup proc'[p].doomed \cup proc'[p].passed
                               /\ Cardinality(K) <= Keep
  PROVE  Bounded'
<1> SUFFICES ASSUME Keep > 0
             PROVE  /\ last' = None => Cardinality(whole' \ left') <= Keep
                    /\ \A q \in Sessions :
                         last' = q =>
                           /\ (proc'[q].pc = "list" /\ proc'[q].want = {})
                                => whole' \subseteq proc'[q].todo \cup proc'[q].seen
                                                   \cup proc'[q].passed
                           /\ proc'[q].pc = "unlink"
                                => \E K \in SUBSET Checkpoints :
                                     /\ whole' \subseteq K \cup proc'[q].doomed
                                                          \cup proc'[q].passed
                                     /\ Cardinality(K) <= Keep
  BY DEF Bounded
<1>1. TypeOK /\ Bounded
  BY DEF IInv
<1>2. last' = None => Cardinality(whole' \ left') <= Keep
  <2> DEFINE S == whole \ left
             T == whole' \ left'
  <2>1. S \in SUBSET Checkpoints /\ T \in SUBSET S
    BY <1>1 DEF TypeOK
  <2>2. Cardinality(T) <= Cardinality(S) /\ Cardinality(T) \in Nat /\ Cardinality(S) \in Nat
    BY <2>1, Counted
  <2>3. last = None => Cardinality(S) <= Keep
    BY <1>1 DEF Bounded
  <2> HIDE DEF S
  <2> QED BY <2>2, <2>3, HandoffAssumption
<1>3. ASSUME NEW q \in Sessions \ {p}, last = q
      PROVE  /\ (proc'[q].pc = "list" /\ proc'[q].want = {})
                  => whole' \subseteq proc'[q].todo \cup proc'[q].seen \cup proc'[q].passed
             /\ proc'[q].pc = "unlink"
                  => \E K \in SUBSET Checkpoints :
                       /\ whole' \subseteq K \cup proc'[q].doomed \cup proc'[q].passed
                       /\ Cardinality(K) <= Keep
  <2>1. proc'[q] = proc[q]
    BY DEF Alone
  <2>2. (proc'[q].pc = "list" /\ proc'[q].want = {})
          => whole' \subseteq proc'[q].todo \cup proc'[q].seen \cup proc'[q].passed
    BY <1>1, <1>3, <2>1 DEF Bounded
  <2>3. ASSUME proc'[q].pc = "unlink"
        PROVE  \E K \in SUBSET Checkpoints :
                 /\ whole' \subseteq K \cup proc'[q].doomed \cup proc'[q].passed
                 /\ Cardinality(K) <= Keep
    <3>1. PICK K \in SUBSET Checkpoints :
                 /\ whole \subseteq K \cup proc[q].doomed \cup proc[q].passed
                 /\ Cardinality(K) <= Keep
      BY <1>1, <1>3, <2>1, <2>3 DEF Bounded
    <3> QED BY <2>1, <3>1
  <2> QED BY <2>2, <2>3
<1> QED BY <1>2, <1>3

LEMMA BoundedStep ==
  ASSUME IInv, [Next]_vars
  PROVE  Bounded'
<1>t. TypeOK /\ Bounded /\ Kept /\ \A p \in Sessions : Sound(p)
  BY DEF IInv
<1>0. CASE Tick \/ UNCHANGED vars
  <2>1. UNCHANGED <<whole, proc, last, left>>
    BY <1>0 DEF Tick, vars
  <2> QED BY <1>t, <2>1 DEF Bounded
<1>1. ASSUME NEW p \in Sessions, Take(p) PROVE Bounded'
  <2>1. Alone(p) /\ proc'[p].pc = "git"
    BY <1>t, <1>1, TypeTake DEF Idle
  <2> QED BY <1>1, <2>1, BoundedLasts DEF Take
<1>2. ASSUME NEW p \in Sessions, Open(p) PROVE Bounded'
  <2>1. Alone(p) /\ proc'[p].pc = "write"
    BY <1>t, <1>2, StepOpen DEF Sound
  <2> QED BY <1>2, <2>1, BoundedLasts DEF Open
<1>3. ASSUME NEW p \in Sessions, Write(p) PROVE Bounded'
  <2>1. last' = p /\ p # None /\ proc'[p].pc = "readdir"
    <3>1. proc'[p] = [Idle EXCEPT !.pc = "readdir"]
      BY <1>t, <1>3, StepWrite DEF Sound
    <3> QED BY <1>3, <3>1, HandoffAssumption DEF Write, Idle
  <2> QED BY <2>1 DEF Bounded
<1>4. ASSUME NEW p \in Sessions, Readdir(p) PROVE Bounded'
  <2>1. Alone(p) /\ proc'[p].pc = "list" /\ proc'[p].todo = torn \cup whole
    BY <1>t, <1>4, StepReaddir DEF Fields
  <2>2. whole' = whole /\ last' = last /\ left' = left
    BY <1>4 DEF Readdir
  <2> QED BY <2>1, <2>2, BoundedLasts
<1>5. ASSUME NEW p \in Sessions, ReadNext(p) PROVE Bounded'
  <2>1. /\ Alone(p) /\ proc'[p].pc = "list" /\ proc'[p].want = proc[p].want
        /\ proc'[p].passed = proc[p].passed
    BY <1>t, <1>5, StepReadNext DEF Fields, SamePassed
  <2>2. PICK c \in proc[p].todo :
          /\ proc'[p].todo = proc[p].todo \ {c}
          /\ proc'[p].seen = IF c \in whole THEN proc[p].seen \cup {c} ELSE proc[p].seen
    BY <1>t, <1>5, StepReadNext
  <2>3. whole' = whole /\ last' = last /\ left' = left /\ proc[p].pc = "list"
    BY <1>5 DEF ReadNext, At
  <2>4. ASSUME Keep > 0, last = p, proc[p].want = {}
        PROVE  whole' \subseteq proc'[p].todo \cup proc'[p].seen \cup proc'[p].passed
    <3>1. whole \subseteq proc[p].todo \cup proc[p].seen \cup proc[p].passed
      BY <1>t, <2>3, <2>4 DEF Bounded
    <3> QED BY <2>1, <2>2, <2>3, <3>1
  <2>5. CASE Keep > 0
    BY <2>1, <2>3, <2>4, <2>5, BoundedLasts
  <2>6. CASE ~(Keep > 0)
    BY <2>6 DEF Bounded
  <2> QED BY <2>5, <2>6
<1>6. ASSUME NEW p \in Sessions, Prune(p) PROVE Bounded'
  <2>1. Alone(p) /\ whole' = whole /\ last' = last /\ left' = left
        /\ proc[p].pc = "list" /\ proc[p].want = {} /\ proc[p].todo = {}
    BY <1>t, <1>6, StepPrune DEF Prune, At
  <2>2. PICK D \in Prunable(proc[p].seen) : proc'[p] = Doomed(p, D)
    BY <1>t, <1>6, StepPrune
  <2>3. proc'[p].pc = "unlink" /\ proc'[p].doomed = D /\ proc'[p].passed = proc[p].passed
    BY <2>2 DEF Doomed, Idle
  <2>4. ASSUME Keep > 0, last = p
        PROVE  \E K \in SUBSET Checkpoints :
                 /\ whole' \subseteq K \cup proc'[p].doomed \cup proc'[p].passed
                 /\ Cardinality(K) <= Keep
    <3>1. whole \subseteq proc[p].seen \cup proc[p].passed
      BY <1>t, <2>1, <2>4 DEF Bounded
    <3>2. proc[p].seen \in SUBSET Checkpoints
      BY <1>t, TypeOfProc
    <3>3. Cardinality(proc[p].seen \ D) <= Keep
      BY <2>4, <3>2, LeftAreFew
    <3>4. whole' \subseteq (proc[p].seen \ D) \cup proc'[p].doomed \cup proc'[p].passed
      BY <2>1, <2>3, <3>1
    <3> QED BY <3>2, <3>3, <3>4
  <2> QED BY <2>1, <2>3, <2>4, BoundedLasts
<1>7. ASSUME NEW p \in Sessions, Unlink(p) PROVE Bounded'
  <2>1. /\ Alone(p) /\ proc'[p].pc = "unlink" /\ proc[p].pc = "unlink"
        /\ last' = last /\ left' = left /\ proc'[p].passed = proc[p].passed
    BY <1>t, <1>7, StepUnlink DEF Fields, SamePassed, Unlink, At
  <2>2. PICK c \in proc[p].doomed : whole' = whole \ {c} /\ proc'[p].doomed = proc[p].doomed \ {c}
    BY <1>t, <1>7, StepUnlink
  <2>3. ASSUME Keep > 0, last = p
        PROVE  \E K \in SUBSET Checkpoints :
                 /\ whole' \subseteq K \cup proc'[p].doomed \cup proc'[p].passed
                 /\ Cardinality(K) <= Keep
    <3>1. PICK K \in SUBSET Checkpoints :
                 /\ whole \subseteq K \cup proc[p].doomed \cup proc[p].passed
                 /\ Cardinality(K) <= Keep
      BY <1>t, <2>1, <2>3 DEF Bounded
    <3> QED BY <2>1, <2>2, <3>1
  <2> QED BY <2>1, <2>2, <2>3, BoundedLasts
<1>8. ASSUME NEW p \in Sessions, Pruned(p) PROVE Bounded'
  <2>1. Alone(p) /\ proc'[p].pc = "idle" /\ whole' = whole
        /\ proc[p].pc = "unlink" /\ proc[p].doomed = {}
    BY <1>t, <1>8, StepToIdle, IdleFields DEF Pruned, At
  <2>2. CASE last = p
    <3> DEFINE rest == whole \ proc[p].passed
    <3>1. ASSUME Keep > 0 PROVE Cardinality(rest) <= Keep
      <4>1. PICK K \in SUBSET Checkpoints :
                   whole \subseteq K \cup proc[p].passed /\ Cardinality(K) <= Keep
        BY <1>t, <2>1, <2>2, <3>1 DEF Bounded
      <4>2. rest \in SUBSET K
        BY <4>1
      <4>3. /\ Cardinality(rest) <= Cardinality(K)
            /\ Cardinality(rest) \in Nat /\ Cardinality(K) \in Nat
        BY <4>2, Counted
      <4> QED BY <4>1, <4>3, HandoffAssumption
    <3>2. \A q \in Sessions : q # None
      BY HandoffAssumption
    <3>3. last' = None /\ left' = proc[p].passed
      BY <1>8, <2>2 DEF Pruned
    <3> QED BY <2>1, <3>1, <3>2, <3>3 DEF Bounded
  <2>3. CASE last # p
    <3>1. last' = last /\ left' = left
      BY <1>8, <2>3 DEF Pruned
    <3> QED BY <2>1, <2>3, <3>1, BoundedLasts
  <2> QED BY <2>2, <2>3
<1>9. ASSUME NEW p \in Sessions, Render(p) \/ Killed(p) PROVE Bounded'
  <2>1. /\ Alone(p) /\ proc'[p].pc = "idle"
        /\ whole' = whole /\ last' = last /\ left' = left
    BY <1>t, <1>9, StepToIdle, IdleFields DEF Render, Killed
  <2> QED BY <2>1, BoundedLasts
<1>10. ASSUME NEW p \in Sessions, Restore(p) PROVE Bounded'
  <2>1. Alone(p) /\ proc'[p].pc = "readdir"
    BY <1>t, <1>10, StepRestore DEF Idle
  <2> QED BY <1>10, <2>1, BoundedLasts DEF Restore
<1>11. ASSUME NEW p \in Sessions, Pick(p) PROVE Bounded'
  <2>1. Alone(p) /\ proc'[p].pc \in {"load", "loaded"}
    BY <1>t, <1>11, StepPick DEF Chosen, Fields
  <2> QED BY <1>11, <2>1, BoundedLasts DEF Pick
<1>12. ASSUME NEW p \in Sessions, Load(p) PROVE Bounded'
  <2>1. Alone(p) /\ proc'[p].pc = "loaded"
    BY <1>t, <1>12, StepLoad DEF Fields
  <2> QED BY <1>12, <2>1, BoundedLasts DEF Load
<1>13. ASSUME NEW p \in Sessions, ReaddirFails(p) PROVE Bounded'
  <2>1. Alone(p) /\ proc'[p].pc = "list" /\ whole \subseteq proc'[p].passed
    BY <1>t, <1>13, StepReaddirFails DEF Fields
  <2>2. whole' = whole /\ last' = last /\ left' = left
    BY <1>13 DEF ReaddirFails
  <2> QED BY <2>1, <2>2, BoundedLasts
<1>14. ASSUME NEW p \in Sessions, ReadFails(p) PROVE Bounded'
  <2>1. /\ Alone(p) /\ proc'[p].pc = "list" /\ proc'[p].want = proc[p].want
        /\ proc'[p].seen = proc[p].seen
    BY <1>t, <1>14, StepReadFails DEF Fields
  <2>2. PICK c \in proc[p].todo : /\ proc'[p].todo = proc[p].todo \ {c}
                                 /\ proc'[p].passed = proc[p].passed \cup {c}
    BY <1>t, <1>14, StepReadFails
  <2>3. whole' = whole /\ last' = last /\ left' = left /\ proc[p].pc = "list"
    BY <1>14 DEF ReadFails, At
  <2>4. ASSUME Keep > 0, last = p, proc[p].want = {}
        PROVE  whole' \subseteq proc'[p].todo \cup proc'[p].seen \cup proc'[p].passed
    <3>1. whole \subseteq proc[p].todo \cup proc[p].seen \cup proc[p].passed
      BY <1>t, <2>3, <2>4 DEF Bounded
    <3> QED BY <2>1, <2>2, <2>3, <3>1
  <2>5. CASE Keep > 0
    BY <2>1, <2>3, <2>4, <2>5, BoundedLasts
  <2>6. CASE ~(Keep > 0)
    BY <2>6 DEF Bounded
  <2> QED BY <2>5, <2>6
<1>15. ASSUME NEW p \in Sessions, UnlinkFails(p) PROVE Bounded'
  <2>1. /\ Alone(p) /\ proc'[p].pc = "unlink" /\ proc[p].pc = "unlink"
        /\ whole' = whole /\ last' = last /\ left' = left
    BY <1>t, <1>15, StepUnlinkFails DEF Fields, UnlinkFails, At
  <2>2. PICK c \in proc[p].doomed : /\ proc'[p].doomed = proc[p].doomed \ {c}
                                   /\ proc'[p].passed = proc[p].passed \cup {c}
    BY <1>t, <1>15, StepUnlinkFails
  <2>3. ASSUME Keep > 0, last = p
        PROVE  \E K \in SUBSET Checkpoints :
                 /\ whole' \subseteq K \cup proc'[p].doomed \cup proc'[p].passed
                 /\ Cardinality(K) <= Keep
    <3>1. PICK K \in SUBSET Checkpoints :
                 /\ whole \subseteq K \cup proc[p].doomed \cup proc[p].passed
                 /\ Cardinality(K) <= Keep
      BY <1>t, <2>1, <2>3 DEF Bounded
    <3> QED BY <2>1, <2>2, <3>1
  <2> QED BY <2>1, <2>3, BoundedLasts
<1>16. ASSUME NEW p \in Sessions, LoadFails(p) PROVE Bounded'
  <2>1. Alone(p) /\ proc'[p].pc = "loaded"
    BY <1>t, <1>16, StepLoadFails DEF Fields
  <2> QED BY <1>16, <2>1, BoundedLasts DEF LoadFails
<1> QED BY <1>0, <1>1, <1>2, <1>3, <1>4, <1>5, <1>6, <1>7, <1>8, <1>9, <1>10, <1>11, <1>12,
           <1>13, <1>14, <1>15, <1>16 DEF Next

LEMMA InvStep == IInv /\ [Next]_vars => IInv'
<1> SUFFICES ASSUME IInv, [Next]_vars PROVE IInv'
  OBVIOUS
<1>1. TypeOK' /\ \A q \in Sessions : Sound(q)'
  <2>1. CASE Tick
    <3>1. UNCHANGED <<torn, whole, proc, finished, last, left>> /\ now' \in Times
      BY <2>1, HandoffAssumption DEF Tick, IInv, TypeOK, Times
    <3>2. TypeOK' /\ finished' \subseteq Checkpoints
      BY <3>1 DEF IInv, TypeOK
    <3> QED BY <3>1, <3>2, SoundLasts DEF IInv
  <2>2. CASE UNCHANGED vars
    <3>1. TypeOK' /\ finished' = finished /\ proc' = proc /\ finished \subseteq Checkpoints
      BY <2>2 DEF vars, IInv, TypeOK
    <3> QED BY <3>1, SoundLasts DEF IInv
  <2> QED BY <2>1, <2>2, SoundTake, SoundOpen, SoundWrite, SoundReaddir, SoundReadNext, SoundPrune,
             SoundUnlink, SoundToIdle, SoundRestore, SoundPick, SoundLoad, SoundReaddirFails,
             SoundReadFails, SoundUnlinkFails, SoundLoadFails DEF Next
<1>2. Kept'
  BY <1>1, KeptStep
<1>3. Bounded'
  BY BoundedStep
<1> QED BY <1>1, <1>2, <1>3 DEF IInv

LEMMA Invariant == Spec => []IInv
BY InvInit, InvStep, PTL DEF Spec

-----------------------------------------------------------------------------
(* The refinement: an archive.                                             *)

\* What a session is about to write is its own, and was never finished before.
Own ==
  \A p \in Sessions : At(p, "git") \/ At(p, "write") =>
    proc[p].id.by = p /\ proc[p].id \notin finished

LEMMA OwnInit == Init => Own
BY IdleFields DEF Init, Own, At

\* A step of p that finishes nothing and does not lead to a write of p.
LEMMA OwnLasts ==
  ASSUME Own, NEW p \in Sessions, Alone(p), finished' = finished,
         At(p, "git")' \/ At(p, "write")' =>
           proc'[p].id.by = p /\ proc'[p].id \notin finished
  PROVE  Own'
BY DEF Own, Alone, At

LEMMA OwnStep ==
  ASSUME IInv, Own, [Next]_vars
  PROVE  Own'
<1>t. TypeOK /\ \A p \in Sessions : Taking(p)
  BY DEF IInv, Sound
<1>1. ASSUME NEW p \in Sessions, Take(p) PROVE Own'
  <2>1. Alone(p) /\ proc'[p] = [Idle EXCEPT !.pc = "git", !.id = [by |-> p, at |-> now]]
    BY <1>t, <1>1, TypeTake
  <2>2. proc'[p].id = [by |-> p, at |-> now]
    BY <2>1 DEF Idle
  <2>3. proc'[p].id.by = p /\ proc'[p].id \notin finished /\ finished' = finished
    BY <1>1, <2>2 DEF Take
  <2> QED BY <2>1, <2>3, OwnLasts
<1>2. ASSUME NEW p \in Sessions, Open(p) PROVE Own'
  <2>1. Alone(p) /\ proc'[p].id = proc[p].id /\ At(p, "git") /\ finished' = finished
    BY <1>t, <1>2, StepOpen DEF Open
  <2> QED BY <2>1, OwnLasts DEF Own
<1>3. ASSUME NEW p \in Sessions, Write(p) PROVE Own'
  <2>1. Alone(p) /\ proc'[p] = [Idle EXCEPT !.pc = "readdir"]
    BY <1>t, <1>3, StepWrite
  <2>2. proc'[p].pc = "readdir"
    BY <2>1 DEF Idle
  <2>3. proc[p].id.by = p /\ finished' = finished \cup {proc[p].id}
    BY <1>3 DEF Write, Own
  <2> SUFFICES ASSUME NEW q \in Sessions, proc'[q].pc = "git" \/ proc'[q].pc = "write"
               PROVE  proc'[q].id.by = q /\ proc'[q].id \notin finished'
    BY DEF Own, At
  <2>4. q # p /\ proc'[q] = proc[q]
    BY <2>1, <2>2 DEF Alone
  <2>5. proc[q].id.by = q /\ proc[q].id \notin finished
    BY <2>4 DEF Own, At
  <2>6. proc[q].id # proc[p].id
    BY <2>3, <2>4, <2>5
  <2> QED BY <2>3, <2>4, <2>5, <2>6
<1>4. ASSUME NEW p \in Sessions,
             \/ Readdir(p) \/ ReadNext(p) \/ Unlink(p) \/ Load(p)
             \/ ReaddirFails(p) \/ ReadFails(p) \/ UnlinkFails(p) \/ LoadFails(p)
      PROVE  Own'
  <2>1. Alone(p) /\ proc'[p].pc \in {"list", "unlink", "loaded"}
    BY <1>t, <1>4, StepReaddir, StepReadNext, StepUnlink, StepLoad, StepReaddirFails,
       StepReadFails, StepUnlinkFails, StepLoadFails DEF Fields
  <2>2. finished' = finished
    BY <1>4 DEF Readdir, ReadNext, Unlink, Load, ReaddirFails, ReadFails, UnlinkFails, LoadFails
  <2> QED BY <2>1, <2>2, OwnLasts DEF At
<1>5. ASSUME NEW p \in Sessions, Prune(p) PROVE Own'
  <2>1. Alone(p) /\ \E D : proc'[p] = Doomed(p, D)
    BY <1>t, <1>5, StepPrune
  <2>2. proc'[p].pc = "unlink" /\ finished' = finished
    BY <1>5, <2>1 DEF Doomed, Idle, Prune
  <2> QED BY <2>1, <2>2, OwnLasts DEF At
<1>6. ASSUME NEW p \in Sessions, Restore(p) PROVE Own'
  <2>1. Alone(p) /\ \E want, best :
          proc'[p] = [Idle EXCEPT !.pc = "readdir", !.want = want, !.best = best]
    BY <1>t, <1>6, StepRestore
  <2>2. proc'[p].pc = "readdir" /\ finished' = finished
    BY <1>6, <2>1 DEF Idle, Restore
  <2> QED BY <2>1, <2>2, OwnLasts DEF At
<1>7. ASSUME NEW p \in Sessions, Pick(p) PROVE Own'
  <2>1. Alone(p) /\ proc'[p].pc \in {"load", "loaded"} /\ finished' = finished
    BY <1>t, <1>7, StepPick DEF Chosen, Fields, Pick
  <2> QED BY <2>1, OwnLasts DEF At
<1>8. ASSUME NEW p \in Sessions, Pruned(p) \/ Render(p) \/ Killed(p) PROVE Own'
  <2>1. Alone(p) /\ proc'[p].pc = "idle" /\ finished' = finished
    BY <1>t, <1>8, StepToIdle, IdleFields DEF Pruned, Render, Killed
  <2> QED BY <2>1, OwnLasts DEF At
<1>9. CASE Tick \/ UNCHANGED vars
  BY <1>9 DEF Tick, vars, Own, At
<1> QED BY <1>1, <1>2, <1>3, <1>4, <1>5, <1>6, <1>7, <1>8, <1>9 DEF Next

LEMMA ArchiveInit == Init => Promised!Init
BY DEF Init, Promised!Init

\* To count here and there is the same.
LEMMA SameCount == \A S : Promised!Cardinality(S) = Cardinality(S)
BY DEF Cardinality, Promised!Cardinality

\* Every step finishes one checkpoint, retires one that may go, or is a stutter: to
\* write is to finish, and an unlink of what another has removed is nothing.
LEMMA ArchiveStep ==
  ASSUME IInv, Own, [Next]_vars
  PROVE  [Promised!Next]_(Promised!vars)
<1>t. TypeOK /\ \A p \in Sessions : Sound(p)
  BY DEF IInv
<1>1. ASSUME NEW p \in Sessions, Write(p) PROVE Promised!Next
  <2>1. proc[p].id \in Checkpoints
    BY <1>t, <1>1, StepWrite DEF Sound
  <2>2. Promised!Finish(proc[p].id)
    BY <1>1 DEF Write, Own, Promised!Finish
  <2> QED BY <2>1, <2>2 DEF Promised!Next
<1>2. ASSUME NEW p \in Sessions, Unlink(p) PROVE Promised!Next \/ UNCHANGED Promised!vars
  <2>1. PICK c \in proc[p].doomed : whole' = whole \ {c}
    BY <1>t, <1>2, StepUnlink
  <2>2. Enough(c) /\ c \in Checkpoints /\ finished' = finished
    BY <1>t, <1>2, TypeOfProc DEF Sound, Unlink
  <2>3. CASE c \in whole
    <3>1. Promised!Retire(c)
      BY <2>1, <2>2, <2>3, SameCount DEF Enough, Promised!Retire, Promised!NotOlder
    <3> QED BY <2>2, <3>1 DEF Promised!Next
  <2>4. CASE c \notin whole
    BY <2>1, <2>2, <2>4 DEF Promised!vars
  <2> QED BY <2>3, <2>4
<1>3. CASE UNCHANGED <<whole, finished>>
  BY <1>3 DEF Promised!vars
<1>4. \/ \E p \in Sessions : Write(p) \/ Unlink(p)
      \/ UNCHANGED <<whole, finished>>
  BY DEF Next, vars, Tick, Take, Open, Readdir, ReaddirFails, ReadNext, ReadFails, Prune,
         UnlinkFails, Pruned, Restore, Pick, Load, LoadFails, Render, Killed
<1> QED BY <1>1, <1>2, <1>3, <1>4

-----------------------------------------------------------------------------
(* Theorems.                                                               *)

\* Any number of sessions that list, prune, restore and are killed are an archive:
\* each checkpoint turns up once and goes only when `keep` others that are no older
\* have been finished (createCheckpoint, pruneCheckpoints).
THEOREM DirectoryIsArchive == Spec => ImplementsArchive
<1>1. IInv /\ Own /\ [Next]_vars => Own'
  BY OwnStep
<1>2. IInv /\ Own /\ [Next]_vars => [Promised!Next]_(Promised!vars)
  BY ArchiveStep
<1> QED BY InvInit, InvStep, OwnInit, ArchiveInit, <1>1, <1>2, PTL
        DEF Spec, ImplementsArchive, Promised!Spec

\* Types hold in every reachable state (checkpoint.ts, restore.ts).
THEOREM TypeCorrect == Spec => []TypeOK
<1>1. IInv => TypeOK
  BY DEF IInv
<1> QED BY <1>1, Invariant, PTL

\* However many processes list, prune and are killed at the same time, the newest
\* `keep` checkpoints ever finished stay in the directory (pruneCheckpoints).
THEOREM NewestAreKept == Spec => []NewestKept
<1>1. IInv => NewestKept
  <2> SUFFICES ASSUME IInv, NEW c \in finished,
                      Cardinality({d \in finished \ {c} : d.at >= c.at}) < Keep \/ Keep = 0
               PROVE  c \in whole
    BY DEF NewestKept
  <2> DEFINE T == {d \in finished \ {c} : d.at >= c.at}
  <2>1. Cardinality(T) \in Nat
    BY Counted DEF IInv, TypeOK
  <2>2. ~Enough(c)
    BY <2>1, HandoffAssumption DEF Enough
  <2> QED BY <2>2 DEF IInv, Kept
<1> QED BY <1>1, Invariant, PTL

\* Whenever the last to write has pruned, at most `keep` checkpoints are left
\* besides those that it could not read or remove itself (createCheckpoint).
THEOREM DirectoryStaysBounded == Spec => []DirectoryBounded
<1>1. IInv => DirectoryBounded
  BY DEF IInv, Bounded, DirectoryBounded
<1> QED BY <1>1, Invariant, PTL

\* A restore gives nothing older than what was finished when it began, unless more
\* than `keep` have been finished since or it could not read one of them
\* (resolveCheckpoint).
THEOREM RestoresAreRecent == Spec => []RestoreNotBehind
<1>1. IInv => RestoreNotBehind
  <2> SUFFICES ASSUME IInv, NEW p \in Sessions, proc[p].pc = "loaded", proc[p].best > 0
               PROVE  \/ /\ proc[p].id # None /\ proc[p].id.by \in proc[p].want
                         /\ proc[p].id.at >= proc[p].best
                      \/ Keep > 0 /\ Cardinality({d \in finished : d.at >= proc[p].best}) > Keep
                      \/ \E c \in proc[p].passed : c.by \in proc[p].want /\ c.at >= proc[p].best
    BY DEF RestoreNotBehind
  <2>1. Behind(proc[p].best) \/ (proc[p].id # None /\ Wanted(p, proc[p].id)) \/ Spurned(p)
    BY DEF IInv, Sound, Reaching
  <2> QED BY <2>1 DEF Behind, Wanted, Spurned
<1> QED BY <1>1, Invariant, PTL
=============================================================================

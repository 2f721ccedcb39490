----------------------- MODULE OutcomeEvaluationProofs -----------------------
(***************************************************************************)
(* Safety of outcome evaluations for any number of processes, windows,     *)
(* observations, claims and faults.                                        *)
(*                                                                         *)
(* The argument: a claim draws a token above all tokens in use, so at most *)
(* one process works under the current one; outcomes are saved once, so    *)
(* what an evaluation is about to complete is what the table holds.        *)
(***************************************************************************)
EXTENDS OutcomeEvaluation, TLAPS

\* The invariant in the forms the steps below use.
LEMMA Facts ==
    ASSUME InductiveInvariant
    PROVE  /\ run \in Runs /\ run.token \in Nat /\ run.result \in Outcomes \cup {None}
           /\ saved \in [Windows -> Outcomes \cup {None}]
           /\ cache \in [Procs -> Outcomes \cup {None}] /\ me \in [Procs -> Locals]
           /\ answers \subseteq Procs \X Windows \X Outcomes
           /\ refused \subseteq Procs \X Windows /\ faults \in 0 .. MaxFaults
           /\ RunOK /\ SavedOK /\ OneHolder /\ ResultIsSavedOutcome /\ AnswersAreDurable
           /\ \A p \in Procs : LocalOK(p)
  BY DEF InductiveInvariant, TypeOK, Runs

\* Freezing touches nothing but the flag.
LEMMA FreezeOK ==
    ASSUME NEW o \in Outcomes
    PROVE  /\ Freeze(o) \in Outcomes /\ Freeze(o).window = o.window
           /\ Freeze(o).seen = o.seen /\ Freeze(o).frozen
  BY DEF Freeze, Outcomes

\* The part of LocalOK that is about one local state, given the tables.
Knows(l, r, t) ==
    /\ l.pc \notin {"idle", "dead"} => l.window \in Windows
    /\ l.pc \in {"lookup", "fetch", "save", "complete"} => l.token \in 1 .. r.token
    /\ l.pc = "save" => l.value \in Outcomes /\ l.value.window = l.window /\ ~l.value.frozen
    /\ l.pc = "complete" => /\ l.value \in Outcomes
                            /\ t[l.value.window] # None
                            /\ l.value = Freeze(t[l.value.window])
    /\ l.pc = "publish" => l.value # None /\ l.value = r.result

\* What a process knows, as a relation to the shared state.
LEMMA KnowsIsLocalOK == ASSUME NEW p PROVE LocalOK(p) <=> Knows(me[p], run, saved)
  BY DEF LocalOK, Knows, Working

\* The rows only move forward.
Forward ==
    /\ run.token <= run'.token
    /\ run.result # None => run'.result = run.result
    /\ \A w \in Windows : saved[w] # None => saved'[w] = saved[w]

\* A step of one process, from what it does to its own state and to the rows.
LEMMA ProcStep ==
    ASSUME InductiveInvariant, NEW p \in Procs, NEW l \in Locals,
           me' = [me EXCEPT ![p] = l],
           run' \in Runs, saved' \in [Windows -> Outcomes \cup {None}],
           Forward, Knows(l, run', saved'), RunOK', SavedOK', ResultIsSavedOutcome',
           \/ run'.token = run.token /\ l.token = me[p].token
                /\ (l.pc \in {"lookup", "fetch", "save", "complete"} => Working(p))
           \/ run'.token = run.token
                /\ l.pc \notin {"lookup", "fetch", "save", "complete"}
           \/ run'.token > run.token,
           cache' \in [Procs -> Outcomes \cup {None}],
           answers' \subseteq Procs \X Windows \X Outcomes,
           refused' \subseteq Procs \X Windows, faults' \in 0 .. MaxFaults,
           AnswersAreDurable'
    PROVE  InductiveInvariant'
  <1> USE Facts
  <1>1. \A q \in Procs : me'[q] = IF q = p THEN l ELSE me[q]
    OBVIOUS
  <1>2. TypeOK'
    BY DEF TypeOK
  <1>3. \A q \in Procs : LocalOK(q)'
    <2> TAKE q \in Procs
    <2>1. Knows(me[q], run, saved) /\ me[q] \in Locals
      BY KnowsIsLocalOK
    <2>2. Knows(me[q], run', saved')
      <3>1. run'.token \in Nat /\ me[q].token \in Nat
        BY DEF Runs, Locals
      <3>2. me[q].pc = "complete" => me[q].value.window \in Windows
        BY <2>1 DEF Knows, Outcomes
      <3> QED BY <2>1, <3>1, <3>2 DEF Knows, Forward
    <2>3. Knows(me'[q], run', saved')
      BY <1>1, <2>2
    <2> QED BY <2>3 DEF LocalOK, Knows, Working
  <1>4. OneHolder'
    <2> SUFFICES ASSUME NEW a \in Procs, NEW b \in Procs, a # b,
                        me'[a].pc \in {"lookup", "fetch", "save", "complete"},
                        me'[a].token = run'.token,
                        me'[b].pc \in {"lookup", "fetch", "save", "complete"},
                        me'[b].token = run'.token
                 PROVE  FALSE
      BY DEF OneHolder, Working
    <2>1. ASSUME NEW c \in Procs, c # p, me'[c].pc \in {"lookup", "fetch", "save", "complete"},
                 me'[c].token = run'.token
          PROVE  Working(c) /\ me[c].token = run.token /\ run'.token = run.token
      <3>1. me'[c] = me[c] /\ Working(c)
        BY <1>1, <2>1 DEF Working
      <3>2. me[c].token \in 1 .. run.token
        BY <3>1 DEF LocalOK
      <3> QED BY <2>1, <3>1, <3>2 DEF Forward, Runs
    <2>2. PICK c \in {a, b} : c # p
      OBVIOUS
    <2>3. run'.token = run.token
      BY <2>1, <2>2
    <2>4. ASSUME p \in {a, b}
          PROVE  Working(p) /\ me[p].token = run.token
      <3>1. l.pc \in {"lookup", "fetch", "save", "complete"} /\ l.token = run.token
        BY <1>1, <2>3, <2>4
      <3> QED BY <2>3, <3>1
    <2>5. Working(a) /\ me[a].token = run.token /\ Working(b) /\ me[b].token = run.token
      BY <2>1, <2>4
    <2> QED BY <2>5 DEF OneHolder
  <1> QED BY <1>2, <1>3, <1>4 DEF InductiveInvariant

\* The same when both tables stay as they are.
LEMMA LocalStep ==
    ASSUME InductiveInvariant, NEW p \in Procs, NEW l \in Locals,
           me' = [me EXCEPT ![p] = l], run' = run, saved' = saved,
           Knows(l, run, saved),
           \/ l.token = me[p].token
                /\ (l.pc \in {"lookup", "fetch", "save", "complete"} => Working(p))
           \/ l.pc \notin {"lookup", "fetch", "save", "complete"},
           cache' \in [Procs -> Outcomes \cup {None}],
           answers' \subseteq Procs \X Windows \X Outcomes,
           refused' \subseteq Procs \X Windows, faults' \in 0 .. MaxFaults,
           AnswersAreDurable'
    PROVE  InductiveInvariant'
  <1> USE Facts
  <1>1. Forward
    BY DEF Forward
  <1>2. RunOK' /\ SavedOK' /\ ResultIsSavedOutcome'
    BY DEF RunOK, SavedOK, ResultIsSavedOutcome
  <1> QED BY <1>1, <1>2, ProcStep

\* An evaluation that ends knows nothing.
LEMMA IdleOK ==
    /\ Idle \in Locals /\ Idle.pc = "idle" /\ \A r, t : Knows(Idle, r, t)
    /\ LET d == [Idle EXCEPT !.pc = "dead"]
       IN  d \in Locals /\ d.pc = "dead" /\ \A r, t : Knows(d, r, t)
  BY DEF Idle, Locals, Labels, Knows

\* An evaluation that raises writes nothing.
LEMMA FailStep ==
    ASSUME InductiveInvariant, NEW p \in Procs, Fail(p), run' = run, saved' = saved,
           cache' = cache, answers' = answers, refused' = refused, faults' \in 0 .. MaxFaults
    PROVE  InductiveInvariant'
  BY Facts, IdleOK, LocalStep DEF Fail, AnswersAreDurable

\* What an answer leaves behind, when the result is the durable one.
LEMMA ReturnOK ==
    ASSUME InductiveInvariant, NEW p \in Procs, me[p].pc \in {"result", "complete"},
           NEW r \in Outcomes, Return(p, r)
    PROVE  \E l \in Locals :
              /\ me' = [me EXCEPT ![p] = l]
              /\ l.pc \in {"idle", "publish"}
              /\ \A new, t : new.result = r => Knows(l, new, t)
              /\ answers' \in {answers, answers \cup {<<p, me[p].window, r>>}}
              /\ answers' \subseteq Procs \X Windows \X Outcomes
  <1> USE Facts
  <1>1. me[p].window \in Windows
    BY DEF LocalOK
  <1>2. CASE p \in Workers
    BY <1>1, <1>2, IdleOK DEF Return
  <1>3. CASE p \notin Workers
    <2> DEFINE l == [me[p] EXCEPT !.pc = "publish", !.value = r]
    <2>1. l \in Locals /\ l.pc = "publish" /\ l.value = r /\ l.window = me[p].window
      BY DEF Locals, Labels
    <2>2. me' = [me EXCEPT ![p] = l] /\ answers' = answers
      BY <1>3 DEF Return
    <2> HIDE DEF l
    <2>3. r # None
      BY NoneIsNoOutcome
    <2>4. \A new, t : new.result = r => Knows(l, new, t)
      BY <1>1, <2>1, <2>3 DEF Knows
    <2> QED BY <2>1, <2>2, <2>4
  <1> QED BY <1>2, <1>3

----------------------------------------------------------------------------
(* One lemma per group of actions.                                         *)

\* Start, result() and a busy lease.
LEMMA Starts ==
    ASSUME InductiveInvariant, NEW p \in Procs,
           (\E w \in Windows : Start(p, w)) \/ ReadResult(p) \/ Busy(p)
    PROVE  InductiveInvariant'
  <1> USE Facts
  <1>1. ASSUME NEW w \in Windows, Start(p, w)
        PROVE  InductiveInvariant'
    <2> DEFINE l == [me[p] EXCEPT !.pc = "result", !.window = w]
    <2>1. l \in Locals /\ l.pc = "result" /\ l.window = w
      BY DEF Locals, Labels
    <2>2. me' = [me EXCEPT ![p] = l]
      BY <1>1 DEF Start
    <2> HIDE DEF l
    <2>3. Knows(l, run, saved)
      BY <2>1 DEF Knows
    <2>4. cache' \in [Procs -> Outcomes \cup {None}] /\ AnswersAreDurable'
      BY <1>1 DEF Start, AnswersAreDurable
    <2> QED BY <1>1, <2>1, <2>2, <2>3, <2>4, LocalStep DEF Start
  <1>2. CASE ReadResult(p)
    <2> DEFINE r == IF cache[p] # None THEN cache[p] ELSE run.result
    <2>1. r = run.result
      BY DEF AnswersAreDurable
    <2>2. /\ cache' = [cache EXCEPT ![p] = run.result]
          /\ run' = run /\ saved' = saved /\ refused' = refused /\ faults' = faults
          /\ run.result # None => Return(p, run.result)
          /\ run.result = None => me' = [me EXCEPT ![p].pc = "claim"] /\ answers' = answers
      BY <1>2, <2>1 DEF ReadResult
    <2>3. cache' \in [Procs -> Outcomes \cup {None}] /\ \A q \in Procs : cache'[q] \in {None, run.result}
      BY <2>2 DEF AnswersAreDurable
    <2>4. CASE run.result # None
      <3>1. me[p].pc = "result" /\ run.result \in Outcomes
        BY <1>2, <2>4 DEF ReadResult
      <3>2. PICK l \in Locals :
              /\ me' = [me EXCEPT ![p] = l] /\ l.pc \in {"idle", "publish"}
              /\ \A new, t : new.result = run.result => Knows(l, new, t)
              /\ answers' \in {answers, answers \cup {<<p, me[p].window, run.result>>}}
              /\ answers' \subseteq Procs \X Windows \X Outcomes
        BY <2>2, <2>4, <3>1, ReturnOK
      <3>3. AnswersAreDurable'
        BY <2>2, <2>3, <3>2 DEF AnswersAreDurable
      <3> QED BY <2>2, <2>3, <3>2, <3>3, LocalStep
    <2>5. CASE run.result = None
      <3> DEFINE l == [me[p] EXCEPT !.pc = "claim"]
      <3>1. l \in Locals /\ l.pc = "claim" /\ l.window = me[p].window
        BY DEF Locals, Labels
      <3>2. me' = [me EXCEPT ![p] = l] /\ answers' = answers
        BY <2>2, <2>5
      <3> HIDE DEF l
      <3>3. me[p].window \in Windows
        BY <1>2 DEF ReadResult, LocalOK
      <3>4. Knows(l, run, saved)
        BY <3>1, <3>3 DEF Knows
      <3>5. AnswersAreDurable'
        BY <2>2, <2>3, <3>2 DEF AnswersAreDurable
      <3> QED BY <2>2, <2>3, <3>1, <3>2, <3>4, <3>5, LocalStep
    <2> QED BY <2>4, <2>5
  <1>3. CASE Busy(p)
    BY <1>3, FailStep DEF Busy
  <1> QED BY <1>1, <1>2, <1>3

\* A claim draws a token above every token in use.
LEMMA Claims ==
    ASSUME InductiveInvariant, NEW p \in Procs, Claim(p)
    PROVE  InductiveInvariant'
  <1> USE Facts
  <1> DEFINE n == run.token + 1
             new == [run EXCEPT !.status = "RUNNING", !.owner = Owner[p], !.lapsed = FALSE, !.token = n]
             l == [me[p] EXCEPT !.pc = "lookup", !.token = n]
  <1>0. n \in Nat /\ n > run.token /\ n # 0
    OBVIOUS
  <1>1. run' = new /\ new.token = n /\ me' = [me EXCEPT ![p] = l]
    BY DEF Claim, Claimed, Runs
  <1> HIDE DEF n
  <1>2. /\ run'.status = "RUNNING" /\ run'.owner = Owner[p] /\ run'.token = n
        /\ run'.result = run.result /\ run' \in Runs
    BY <1>0, <1>1 DEF Runs
  <1>3. l \in Locals /\ l.pc = "lookup" /\ l.token = n /\ l.window = me[p].window
    BY <1>0 DEF Locals, Labels
  <1> HIDE DEF l, new
  <1>4. run.status # "SUCCEEDED" /\ run.result = None
    BY DEF Claim, Claimable, RunOK
  <1>5. RunOK' /\ SavedOK' /\ ResultIsSavedOutcome' /\ Forward
    BY <1>0, <1>2, <1>4 DEF Claim, RunOK, SavedOK, ResultIsSavedOutcome, Forward
  <1>6. me[p].window \in Windows
    BY DEF Claim, LocalOK
  <1>7. Knows(l, run', saved')
    BY <1>0, <1>2, <1>3, <1>6 DEF Knows
  <1>8. AnswersAreDurable'
    BY <1>2 DEF Claim, AnswersAreDurable
  <1>9. run'.token > run.token
    BY <1>0, <1>2
  <1> QED BY <1>1, <1>2, <1>3, <1>9, <1>5, <1>7, <1>8, ProcStep DEF Claim

\* The calculator: look the outcome up, fetch it, save it.
LEMMA Calculates ==
    ASSUME InductiveInvariant, NEW p \in Procs,
           \/ LookUp(p) \/ FetchFails(p) \/ Save(p)
           \/ \E seen \in Observations : Fetch(p, seen)
    PROVE  InductiveInvariant'
  <1> USE Facts
  <1>0. /\ me[p] \in Locals /\ me[p].window \in Windows /\ Working(p)
        /\ me[p].token \in 1 .. run.token
    BY DEF LookUp, FetchFails, Save, Fetch, LocalOK, Working
  <1>1. CASE LookUp(p)
    <2> DEFINE o == saved[me[p].window]
               pc == IF o # None THEN "complete" ELSE "fetch"
               v == IF o # None THEN Freeze(o) ELSE None
               l == [me[p] EXCEPT !.pc = pc, !.value = v]
    <2>1. /\ v \in Outcomes \cup {None} /\ pc \in {"complete", "fetch"}
          /\ pc = "complete" => /\ v \in Outcomes /\ saved[v.window] # None
                                /\ v = Freeze(saved[v.window])
      <3>1. CASE o = None
        BY <3>1
      <3>2. CASE o # None
        <4>1. o \in Outcomes /\ o.window = me[p].window
          BY <1>0, <3>2 DEF SavedOK
        <4>2. v = Freeze(o) /\ v \in Outcomes /\ v.window = me[p].window
          BY <3>2, <4>1, FreezeOK
        <4> QED BY <3>2, <4>2
      <3> QED BY <3>1, <3>2
    <2>2. me' = [me EXCEPT ![p] = l]
      BY <1>1 DEF LookUp
    <2> HIDE DEF o, pc, v
    <2>3. l \in Locals /\ l.pc = pc /\ l.value = v /\ l.window = me[p].window /\ l.token = me[p].token
      BY <1>0, <2>1 DEF Locals, Labels
    <2> HIDE DEF l
    <2>4. Knows(l, run, saved)
      BY <1>0, <2>1, <2>3 DEF Knows
    <2>5. AnswersAreDurable'
      BY <1>1 DEF LookUp, AnswersAreDurable
    <2> QED BY <1>0, <1>1, <2>2, <2>3, <2>4, <2>5, LocalStep DEF LookUp
  <1>2. ASSUME NEW seen \in Observations, Fetch(p, seen)
        PROVE  InductiveInvariant'
    <2> DEFINE v == [window |-> me[p].window, seen |-> seen, frozen |-> FALSE]
               l == [me[p] EXCEPT !.pc = "save", !.value = v]
    <2>1. v \in Outcomes /\ v.window = me[p].window /\ ~v.frozen
      BY <1>0 DEF Outcomes
    <2>2. me' = [me EXCEPT ![p] = l]
      BY <1>2 DEF Fetch
    <2> HIDE DEF v
    <2>3. l \in Locals /\ l.pc = "save" /\ l.value = v /\ l.window = me[p].window /\ l.token = me[p].token
      BY <1>0, <2>1 DEF Locals, Labels
    <2> HIDE DEF l
    <2>4. Knows(l, run, saved)
      BY <1>0, <2>1, <2>3 DEF Knows
    <2>5. AnswersAreDurable'
      BY <1>2 DEF Fetch, AnswersAreDurable
    <2> QED BY <1>0, <1>2, <2>2, <2>3, <2>4, <2>5, LocalStep DEF Fetch
  <1>3. CASE FetchFails(p)
    <2>1. faults' \in 0 .. MaxFaults
      BY <1>3, OutcomeAssumption DEF FetchFails
    <2> QED BY <1>3, <2>1, FailStep DEF FetchFails
  <1>4. CASE Save(p)
    <2> DEFINE o == me[p].value
               l == [me[p] EXCEPT !.pc = "complete", !.value = Freeze(o)]
    <2>1. o \in Outcomes /\ o.window = me[p].window /\ ~o.frozen
      BY <1>4 DEF Save, LocalOK
    <2>2. CASE Accepts(saved[o.window], o)
      <3>1. saved' = [saved EXCEPT ![o.window] = o] /\ me' = [me EXCEPT ![p] = l]
        BY <1>4, <2>2 DEF Save
      <3>2. Freeze(o) \in Outcomes /\ Freeze(o).window = o.window
        BY <2>1, FreezeOK
      <3>3. l \in Locals /\ l.pc = "complete" /\ l.value = Freeze(o) /\ l.window = me[p].window
            /\ l.token = me[p].token
        BY <1>0, <3>2 DEF Locals, Labels
      <3> HIDE DEF l
      <3>4. o # None /\ saved'[o.window] = o
        BY <1>0, <2>1, <3>1, NoneIsNoOutcome
      <3>5. saved' \in [Windows -> Outcomes \cup {None}]
            /\ \A w \in Windows : saved'[w] = IF w = o.window THEN o ELSE saved[w]
        BY <1>0, <2>1, <3>1
      <3>6. Knows(l, run, saved')
        BY <1>0, <3>2, <3>3, <3>4 DEF Knows
      <3>7. \A w \in Windows : saved[w] # None => saved'[w] = saved[w]
        BY <2>2, <3>5 DEF Accepts
      <3>8. run' = run /\ cache' = cache /\ answers' = answers /\ refused' = refused /\ faults' = faults
        BY <1>4 DEF Save
      <3>9. RunOK' /\ SavedOK' /\ Forward /\ AnswersAreDurable'
        BY <2>1, <3>5, <3>7, <3>8 DEF RunOK, SavedOK, Forward, AnswersAreDurable
      <3>10. ResultIsSavedOutcome'
        BY <3>7, <3>8 DEF ResultIsSavedOutcome, Outcomes
      <3> QED BY <1>0, <3>1, <3>3, <3>5, <3>6, <3>8, <3>9, <3>10, ProcStep
    <2>3. CASE ~Accepts(saved[o.window], o)
      BY <1>4, <2>3, FailStep DEF Save
    <2> QED BY <2>2, <2>3
  <1> QED BY <1>1, <1>2, <1>3, <1>4

\* complete() of the holder, of a process that lost the race, and its refusals.
LEMMA Completes ==
    ASSUME InductiveInvariant, NEW p \in Procs,
           Complete(p) \/ CompleteAgain(p) \/ CompleteRefused(p)
    PROVE  InductiveInvariant'
  <1> USE Facts
  <1> DEFINE v == me[p].value
  <1>0. me[p].pc = "complete" /\ v \in Outcomes /\ v.window \in Windows
        /\ saved[v.window] # None /\ v = Freeze(saved[v.window])
    BY DEF Complete, CompleteAgain, CompleteRefused, LocalOK, Outcomes
  <1>1. CASE Complete(p)
    <2>1. PICK l \in Locals :
            /\ me' = [me EXCEPT ![p] = l] /\ l.pc \in {"idle", "publish"}
            /\ \A new, t : new.result = v => Knows(l, new, t)
            /\ answers' \in {answers, answers \cup {<<p, me[p].window, v>>}}
            /\ answers' \subseteq Procs \X Windows \X Outcomes
      BY <1>0, <1>1, ReturnOK DEF Complete
    <2>2. run.status = "RUNNING" /\ run.result = None
      BY <1>1 DEF Complete, HoldsLease, RunOK
    <2>3. /\ run'.status = "SUCCEEDED" /\ run'.result = v /\ run'.token = run.token
          /\ run' \in Runs
      BY <1>0, <1>1 DEF Complete, Runs
    <2>4. saved' = saved /\ cache' = cache /\ refused' = refused /\ faults' = faults
      BY <1>1 DEF Complete
    <2>5. answers = {} /\ \A q \in Procs : cache[q] = None
      BY <2>2, NoneIsNoOutcome DEF AnswersAreDurable
    <2>6. AnswersAreDurable'
      BY <2>1, <2>3, <2>4, <2>5 DEF AnswersAreDurable
    <2>7. RunOK' /\ SavedOK' /\ Forward /\ ResultIsSavedOutcome'
      BY <1>0, <2>2, <2>3, <2>4, NoneIsNoOutcome
         DEF RunOK, SavedOK, Forward, ResultIsSavedOutcome
    <2>8. Knows(l, run', saved')
      BY <2>1, <2>3
    <2> QED BY <2>1, <2>3, <2>4, <2>6, <2>7, <2>8, ProcStep
  <1>2. CASE CompleteAgain(p)
    <2>1. run.result = v
      BY <1>2 DEF CompleteAgain, SameResult
    <2>2. PICK l \in Locals :
            /\ me' = [me EXCEPT ![p] = l] /\ l.pc \in {"idle", "publish"}
            /\ \A new, t : new.result = v => Knows(l, new, t)
            /\ answers' \in {answers, answers \cup {<<p, me[p].window, v>>}}
            /\ answers' \subseteq Procs \X Windows \X Outcomes
      BY <1>0, <1>2, ReturnOK DEF CompleteAgain
    <2>3. AnswersAreDurable'
      BY <1>2, <2>1, <2>2 DEF CompleteAgain, AnswersAreDurable
    <2> QED BY <1>2, <2>1, <2>2, <2>3, LocalStep DEF CompleteAgain
  <1>3. CASE CompleteRefused(p)
    BY <1>3, FailStep DEF CompleteRefused
  <1> QED BY <1>1, <1>2, <1>3

\* The request's own save always meets the outcome the provider saved under that
\* id, without the frozen identity, and is refused.
LEMMA PublishRefused ==
    ASSUME InductiveInvariant, NEW p \in Procs, Publish(p)
    PROVE  /\ saved' = saved /\ answers' = answers /\ me' = [me EXCEPT ![p] = Idle]
           /\ refused' = refused \cup {<<p, me[p].window>>}
           /\ run' = run /\ cache' = cache /\ faults' = faults
  <1> USE Facts
  <1> DEFINE v == me[p].value
             new == Published(p)
  <1>1. v = run.result /\ v # None /\ v \in Outcomes /\ v.window \in Windows
        /\ me[p].window \in Windows
    BY DEF Publish, LocalOK, Outcomes
  <1>2. saved[v.window] # None /\ ~saved[v.window].frozen /\ v.frozen
    BY <1>1, FreezeOK DEF ResultIsSavedOutcome, SavedOK
  <1>3. new.frozen /\ new # None
    <2>1. new \in Outcomes /\ new.frozen
      BY <1>1, <1>2 DEF Published, Outcomes
    <2> QED BY <2>1, NoneIsNoOutcome
  <1>4. ~Accepts(saved[v.window], new)
    BY <1>2, <1>3 DEF Accepts
  <1> QED BY <1>4 DEF Publish

\* The second save of an API request, crashes and the passing of the lease.
LEMMA PublishCrashLapse ==
    ASSUME InductiveInvariant,
           (\E p \in Procs : Publish(p) \/ Crash(p)) \/ Lapse
    PROVE  InductiveInvariant'
  <1> USE Facts
  <1>1. ASSUME NEW p \in Procs, Publish(p)
        PROVE  InductiveInvariant'
    <2>1. me[p].window \in Windows
      BY <1>1 DEF Publish, LocalOK
    <2>2. refused' \subseteq Procs \X Windows
      BY <1>1, <2>1, PublishRefused
    <2>3. AnswersAreDurable'
      BY <1>1, PublishRefused DEF AnswersAreDurable
    <2> QED BY <1>1, <2>2, <2>3, PublishRefused, IdleOK, LocalStep
  <1>2. ASSUME NEW p \in Procs, Crash(p)
        PROVE  InductiveInvariant'
    <2> DEFINE l == [Idle EXCEPT !.pc = IF p \in Workers THEN "idle" ELSE "dead"]
    <2>1. l = Idle \/ l = [Idle EXCEPT !.pc = "dead"]
      BY DEF Idle
    <2>2. l \in Locals /\ l.pc \in {"idle", "dead"} /\ Knows(l, run, saved)
      BY <2>1, IdleOK
    <2>3. me' = [me EXCEPT ![p] = l]
      BY <1>2 DEF Crash
    <2> HIDE DEF l
    <2>4. faults' \in 0 .. MaxFaults
      BY <1>2, OutcomeAssumption DEF Crash
    <2>5. cache' \in [Procs -> Outcomes \cup {None}] /\ AnswersAreDurable'
      BY <1>2 DEF Crash, AnswersAreDurable
    <2> QED BY <1>2, <2>2, <2>3, <2>4, <2>5, LocalStep DEF Crash
  <1>3. CASE Lapse
    <2>1. /\ run'.status = run.status /\ run'.token = run.token /\ run'.result = run.result
          /\ run' \in Runs
      BY <1>3 DEF Lapse, Runs
    <2>2. faults' \in 0 .. MaxFaults
      BY <1>3, OutcomeAssumption DEF Lapse
    <2>3. saved' = saved /\ cache' = cache /\ me' = me /\ answers' = answers /\ refused' = refused
      BY <1>3 DEF Lapse
    <2>4. TypeOK' /\ RunOK' /\ SavedOK'
      BY <2>1, <2>2, <2>3 DEF TypeOK, RunOK, SavedOK
    <2>5. OneHolder' /\ ResultIsSavedOutcome' /\ AnswersAreDurable'
      BY <2>1, <2>3 DEF OneHolder, Working, ResultIsSavedOutcome, AnswersAreDurable
    <2>6. \A p \in Procs : LocalOK(p)'
      BY <2>1, <2>3 DEF LocalOK, Working
    <2> QED BY <2>4, <2>5, <2>6 DEF InductiveInvariant
  <1> QED BY <1>1, <1>2, <1>3

\* No lease, no outcome.
LEMMA InitOK == Init => InductiveInvariant
  <1> SUFFICES ASSUME Init PROVE InductiveInvariant
    OBVIOUS
  <1>1. TypeOK
    BY IdleOK, OutcomeAssumption DEF Init, TypeOK, NoRun, Runs
  <1>2. RunOK /\ SavedOK /\ ResultIsSavedOutcome /\ AnswersAreDurable
    BY DEF Init, NoRun, RunOK, SavedOK, ResultIsSavedOutcome, AnswersAreDurable
  <1>3. OneHolder /\ \A p \in Procs : LocalOK(p)
    BY DEF Init, Idle, OneHolder, Working, LocalOK
  <1> QED BY <1>1, <1>2, <1>3 DEF InductiveInvariant

\* One case per action.
LEMMA NextOK == InductiveInvariant /\ [Next]_vars => InductiveInvariant'
  <1> SUFFICES ASSUME InductiveInvariant, [Next]_vars PROVE InductiveInvariant'
    OBVIOUS
  <1>1. CASE UNCHANGED vars
    BY <1>1 DEF vars, InductiveInvariant, TypeOK, RunOK, SavedOK, LocalOK, Working, OneHolder,
       ResultIsSavedOutcome, AnswersAreDurable
  <1>2. CASE Next
    BY <1>2, Starts, Claims, Calculates, Completes, PublishCrashLapse DEF Next, Evaluate
  <1> QED BY <1>1, <1>2

\* What one step does to the durable result and to the answers.
LEMMA StepEffects ==
    ASSUME InductiveInvariant, [Next]_vars
    PROVE  \/ run'.result = run.result /\ answers' = answers
           \/ /\ run.result = None /\ run'.result \in Outcomes
              /\ \/ answers' = answers
                 \/ \E p, w : answers' = answers \cup {<<p, w, run'.result>>}
           \/ /\ run.result # None /\ run'.result = run.result
              /\ \E p, w : answers' = answers \cup {<<p, w, run.result>>}
  <1> USE Facts
  <1>1. ASSUME NEW p \in Procs, ReadResult(p)
        PROVE  /\ run' = run
               /\ \/ answers' = answers
                  \/ run.result # None /\ answers' = answers \cup {<<p, me[p].window, run.result>>}
    BY <1>1 DEF ReadResult, Return, AnswersAreDurable
  <1>2. ASSUME NEW p \in Procs, Complete(p)
        PROVE  /\ run.result = None /\ run'.result \in Outcomes
               /\ \/ answers' = answers
                  \/ answers' = answers \cup {<<p, me[p].window, run'.result>>}
    <2>1. run.result = None
      BY <1>2 DEF Complete, HoldsLease, RunOK
    <2>2. run'.result = me[p].value /\ me[p].value \in Outcomes
      BY <1>2 DEF Complete, LocalOK, Runs
    <2> QED BY <1>2, <2>1, <2>2 DEF Complete, Return
  <1>3. ASSUME NEW p \in Procs, CompleteAgain(p)
        PROVE  /\ run.result # None /\ run' = run
               /\ \/ answers' = answers
                  \/ answers' = answers \cup {<<p, me[p].window, run.result>>}
    <2>1. run.result = me[p].value /\ me[p].value \in Outcomes
      BY <1>3 DEF CompleteAgain, SameResult, LocalOK
    <2> QED BY <1>3, <2>1, NoneIsNoOutcome DEF CompleteAgain, Return
  <1>4. ASSUME NEW p \in Procs, Claim(p)
        PROVE  run'.result = run.result /\ answers' = answers
    BY <1>4 DEF Claim, Claimed, Runs
  <1>5. ASSUME NEW p \in Procs, Publish(p)
        PROVE  run'.result = run.result /\ answers' = answers
    BY <1>5, PublishRefused
  <1>6. Lapse => run'.result = run.result /\ answers' = answers
    BY DEF Lapse, Runs
  <1>7. ASSUME NEW p \in Procs,
               \/ \E w \in Windows : Start(p, w)
               \/ Busy(p) \/ LookUp(p) \/ (\E seen \in Observations : Fetch(p, seen)) \/ FetchFails(p)
               \/ Save(p) \/ CompleteRefused(p) \/ Crash(p)
        PROVE  run' = run /\ answers' = answers
    BY <1>7 DEF Start, Busy, LookUp, Fetch, FetchFails, Save, CompleteRefused, Crash
  <1>8. CASE UNCHANGED vars
    BY <1>8 DEF vars
  <1>9. CASE Next
    BY <1>1, <1>2, <1>3, <1>4, <1>5, <1>6, <1>7, <1>9 DEF Next, Evaluate
  <1> QED BY <1>8, <1>9

----------------------------------------------------------------------------
(* Theorems.                                                               *)

\* The inductive invariant holds in every reachable state.
THEOREM Invariance == Spec => []InductiveInvariant
  BY InitOK, NextOK, PTL DEF Spec

\* The rows, caches and locals keep their types.
THEOREM TypeCorrect == Spec => []TypeOK
  <1>1. InductiveInvariant => TypeOK
    BY DEF InductiveInvariant
  <1> QED BY <1>1, Invariance, PTL

\* No two processes ever work under the current fencing token.
THEOREM TokenIsExclusive == Spec => []OneHolder
  <1>1. InductiveInvariant => OneHolder
    BY DEF InductiveInvariant
  <1> QED BY <1>1, Invariance, PTL

\* The lease row and the outcome table never disagree about the result.
THEOREM TablesAgree == Spec => []ResultIsSavedOutcome
  <1>1. InductiveInvariant => ResultIsSavedOutcome
    BY DEF InductiveInvariant
  <1> QED BY <1>1, Invariance, PTL

\* Every answer and every cached result is the durable one.
THEOREM AnswersDurable == Spec => []AnswersAreDurable
  <1>1. InductiveInvariant => AnswersAreDurable
    BY DEF InductiveInvariant
  <1> QED BY <1>1, Invariance, PTL

\* Lease, calculator, cache and router implement DurableResult: one result is
\* chosen once and it alone is delivered.
THEOREM Refinement == Spec => ImplementsPromise
  <1> DEFINE delivered == {a[3] : a \in answers}
  <1>1. Init => Promise!Init
    BY DEF Init, NoRun, Promise!Init
  <1>2. InductiveInvariant /\ [Next]_vars => [Promise!Next]_<<run.result, delivered>>
    <2> SUFFICES ASSUME InductiveInvariant, [Next]_vars
                 PROVE  [Promise!Next]_<<run.result, delivered>>
      OBVIOUS
    <2>1. ASSUME NEW p, NEW w, NEW r, answers' = answers \cup {<<p, w, r>>}
          PROVE  delivered' = delivered \cup {r}
      <3>1. delivered' = {a[3] : a \in answers'}
        OBVIOUS
      <3>2. {a[3] : a \in answers \cup {<<p, w, r>>}} = {a[3] : a \in answers} \cup {<<p, w, r>>[3]}
        BY Zenon
      <3> QED BY <2>1, <3>1, <3>2
    <2>2. CASE run'.result = run.result /\ answers' = answers
      BY <2>2
    <2>3. CASE run.result = None /\ run'.result \in Outcomes /\ answers' = answers
      BY <2>3 DEF Promise!Next, Promise!Choose
    <2>4. CASE /\ run.result = None /\ run'.result \in Outcomes
               /\ \E p, w : answers' = answers \cup {<<p, w, run'.result>>}
      <3>1. delivered' = delivered \cup {run'.result}
        BY <2>1, <2>4
      <3> QED BY <2>4, <3>1 DEF Promise!Next, Promise!Choose
    <2>5. CASE /\ run.result # None /\ run'.result = run.result
               /\ \E p, w : answers' = answers \cup {<<p, w, run.result>>}
      <3>1. delivered' = delivered \cup {run.result}
        BY <2>1, <2>5
      <3> QED BY <2>5, <3>1 DEF Promise!Next, Promise!Deliver
    <2> QED BY <2>2, <2>3, <2>4, <2>5, StepEffects
  <1> QED BY <1>1, <1>2, Invariance, PTL DEF Spec, ImplementsPromise, Promise!Spec

\* A durable result is never replaced and its run never reopened.
THEOREM ResultFinal == Spec => ResultIsFinal
  <1>1. ASSUME InductiveInvariant, [Next]_vars, run.result # None
        PROVE  run'.result = run.result /\ run'.status = run.status
    <2>1. InductiveInvariant'
      BY <1>1, NextOK
    <2>2. run'.result = run.result
      BY <1>1, StepEffects
    <2> QED BY <1>1, <2>1, <2>2 DEF InductiveInvariant, RunOK
  <1>2. InductiveInvariant /\ [Next]_vars =>
          [run.result # None => UNCHANGED <<run.result, run.status>>]_run
    BY <1>1
  <1> QED BY <1>2, Invariance, PTL DEF Spec, ResultIsFinal

\* No evaluation and no request overwrites a saved outcome.
THEOREM SavedOutcomesStay == Spec => OutcomesImmutable
  <1>1. ASSUME InductiveInvariant, Next, NEW w \in Windows, saved[w] # None
        PROVE  saved'[w] = saved[w]
    <2> USE Facts, <1>1
    <2>1. ASSUME NEW p \in Procs, Save(p)
          PROVE  saved'[w] = saved[w]
      <3>1. me[p].value.window \in Windows
        BY <2>1 DEF Save, LocalOK
      <3> QED BY <2>1, <3>1 DEF Save, Accepts
    <2>2. ASSUME NEW p \in Procs, Publish(p)
          PROVE  saved'[w] = saved[w]
      BY <2>2, PublishRefused
    <2>3. ASSUME NEW p \in Procs,
                 \/ \E x \in Windows : Start(p, x)
                 \/ ReadResult(p) \/ Claim(p) \/ Busy(p) \/ LookUp(p)
                 \/ \E seen \in Observations : Fetch(p, seen)
                 \/ FetchFails(p) \/ Complete(p) \/ CompleteAgain(p) \/ CompleteRefused(p) \/ Crash(p)
          PROVE  saved' = saved
      BY <2>3 DEF Start, ReadResult, Claim, Busy, LookUp, Fetch, FetchFails, Complete,
         CompleteAgain, CompleteRefused, Crash
    <2>4. Lapse => saved' = saved
      BY DEF Lapse
    <2> QED BY <2>1, <2>2, <2>3, <2>4 DEF Next, Evaluate
  <1>2. InductiveInvariant /\ [Next]_vars =>
          [\A w \in Windows : saved[w] # None => saved'[w] = saved[w]]_saved
    BY <1>1 DEF vars
  <1> QED BY <1>2, Invariance, PTL DEF Spec, OutcomesImmutable

\* One holder, and lease row, outcome table, caches and answers agree.
THEOREM OutcomeIsOne == Spec => []OneOutcome
  <1>1. OneHolder /\ ResultIsSavedOutcome /\ AnswersAreDurable => OneOutcome
    BY DEF OneOutcome
  <1> QED BY <1>1, TokenIsExclusive, TablesAgree, AnswersDurable, PTL

\* The durable result and the saved outcomes are never replaced.
THEOREM OutcomeStays == Spec => OutcomesStay
  BY ResultFinal, SavedOutcomesStay DEF OutcomesStay

=============================================================================

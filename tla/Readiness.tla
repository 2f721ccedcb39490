----------------------------- MODULE Readiness -----------------------------
(***************************************************************************)
(* FormalReadinessService: one object per process, whose check() is called *)
(* by request threads at the same time.  check() asks one capability probe *)
(* after the other and keeps the last good response of each component, to  *)
(* be used while a probe raises.  The cache is read and written under a    *)
(* lock, except where a cached answer is annotated; probes run outside.    *)
(***************************************************************************)
EXTENDS Integers, Sequences

CONSTANTS
    Checkers,    \* threads that call check()
    Names,       \* the components, in the order they are asked
    Ages,        \* snapshot ages a producer reports
    MaxAge,      \* max_snapshot_age_seconds
    Ttl,         \* ttl_seconds of a cached response
    MaxNow,      \* bound on the clock
    NoEntry

Components == {Names[i] : i \in DOMAIN Names}

ASSUME ReadinessAssumption ==
    /\ Ages \subseteq Nat /\ MaxAge \in Nat /\ Ttl \in Nat /\ MaxNow \in Nat
    /\ Names \in Seq(Components) /\ Names # << >>

VARIABLES
    setup,       \* how the service was built; never changes
    now,         \* the clock
    cache,       \* _cache: last good response of each component
    checking     \* local state of each call of check()

readinessVars == <<setup, now, cache, checking>>

\* What a call knows of a component.  gates: contract, identity, quality and
\* point-in-time are as the policy demands.  heard is when the response was
\* received and born when its snapshot was taken: they are not part of the
\* code's record, and no action reads them.
Status == [reachable : BOOLEAN, gates : BOOLEAN, age : Int, heard : Nat, born : Int]

Unreachable ==
    [reachable |-> FALSE, gates |-> FALSE, age |-> 0, heard |-> 0, born |-> 0]

Entry == [status : Status, at : Nat]

Idle == [pc |-> "idle", at |-> 0, next |-> 1, got |-> Unreachable,
         known |-> [n \in Components |-> Unreachable]]

Calls == [pc : {"idle", "probe", "store", "test", "look", "answered", "raised"},
          at : Nat, next : 1 .. Len(Names) + 1, got : Status,
          known : [Components -> Status]]

ReadinessInit ==
    /\ setup \in [fixture : BOOLEAN, manifest : BOOLEAN, probes : SUBSET Components]
    /\ now = 0
    /\ cache = [n \in Components |-> NoEntry]
    /\ checking = [c \in Checkers |-> Idle]

Asked(c) == Names[checking[c].next]

\* _validation_reasons is empty.
Valid(s) == s.gates /\ s.age <= MaxAge

\* The status of the component at hand is known; go on with the next one.
Settle(c, s) ==
    LET call == checking[c] IN
    checking' = [checking EXCEPT ![c] =
        [call EXCEPT !.known[Asked(c)] = s, !.got = Unreachable, !.next = @ + 1,
                     !.pc = IF call.next = Len(Names) THEN "answered" ELSE "probe"]]

\* check() is entered: the clock is read once, for the whole call.
StartCheck(c) ==
    /\ checking[c].pc \in {"idle", "answered", "raised"}
    /\ checking' = [checking EXCEPT ![c] =
           [Idle EXCEPT !.at = now, !.pc = IF setup.fixture THEN "answered" ELSE "probe"]]
    /\ UNCHANGED <<setup, now, cache>>

ProbeMissing(c) ==
    /\ checking[c].pc = "probe" /\ Asked(c) \notin setup.probes
    /\ Settle(c, Unreachable)
    /\ UNCHANGED <<setup, now, cache>>

\* The probe returns: a timeout or an HTTP error is a status, not an exception.
ProbeDown(c) ==
    /\ checking[c].pc = "probe" /\ Asked(c) \in setup.probes
    /\ Settle(c, Unreachable)
    /\ UNCHANGED <<setup, now, cache>>

ProbeAnswers(c) ==
    /\ checking[c].pc = "probe" /\ Asked(c) \in setup.probes
    /\ \E g \in BOOLEAN, a \in Ages :
           checking' = [checking EXCEPT ![c].pc = "store",
               ![c].got = [reachable |-> TRUE, gates |-> g, age |-> a,
                           heard |-> now, born |-> now - a]]
    /\ UNCHANGED <<setup, now, cache>>

\* Under the lock: a good response replaces the entry, a bad one removes it.
Remembered(c, s) == IF Valid(s) THEN [status |-> s, at |-> checking[c].at] ELSE NoEntry

Store(c) ==
    /\ checking[c].pc = "store"
    /\ cache' = [cache EXCEPT ![Asked(c)] = Remembered(c, checking[c].got)]
    /\ Settle(c, checking[c].got)
    /\ UNCHANGED <<setup, now>>

\* Mutant: a cached response is used however old it is.
InTtl_Ignored(age) == TRUE

InTtl(age) == age <= Ttl

\* _cached_or_failed
CachedOrFailed(c) ==
    LET entry == cache[Asked(c)]
        age   == checking[c].at - entry.at
    IN  IF entry = NoEntry THEN Unreachable
        ELSE [entry.status EXCEPT !.reachable = InTtl(age), !.age = @ + age]

\* The probe, or the handling of its response, raises.
ProbeRaises(c) ==
    /\ checking[c].pc = "probe" /\ Asked(c) \in setup.probes
    /\ LET s == CachedOrFailed(c) IN
       IF s.reachable
       THEN checking' = [checking EXCEPT ![c].pc = "test", ![c].got = s]
       ELSE Settle(c, s)
    /\ UNCHANGED <<setup, now, cache>>

\* Outside the lock: name in self._cache, and then self._cache[name].
TestEntry(c) ==
    /\ checking[c].pc = "test"
    /\ IF cache[Asked(c)] = NoEntry
       THEN Settle(c, checking[c].got)
       ELSE checking' = [checking EXCEPT ![c].pc = "look"]
    /\ UNCHANGED <<setup, now, cache>>

LookEntry(c) ==
    /\ checking[c].pc = "look" /\ cache[Asked(c)] # NoEntry
    /\ Settle(c, checking[c].got)
    /\ UNCHANGED <<setup, now, cache>>

\* Another thread removed the entry in between: KeyError.
EntryGone(c) ==
    /\ checking[c].pc = "look" /\ cache[Asked(c)] = NoEntry
    /\ checking' = [checking EXCEPT ![c].pc = "raised"]
    /\ UNCHANGED <<setup, now, cache>>

Clock ==
    /\ now < MaxNow
    /\ now' = now + 1
    /\ UNCHANGED <<setup, cache, checking>>

ReadinessStep(c) ==
    \/ StartCheck(c) \/ ProbeMissing(c) \/ ProbeDown(c) \/ ProbeAnswers(c) \/ Store(c)
    \/ ProbeRaises(c) \/ TestEntry(c) \/ LookEntry(c) \/ EntryGone(c)

ReadinessNext == Clock \/ \E c \in Checkers : ReadinessStep(c)

ReadinessSpec == ReadinessInit /\ [][ReadinessNext]_readinessVars

\* ReadinessResult.ready
Ready(c) ==
    \/ setup.fixture
    \/ setup.manifest /\ \A n \in Components :
           checking[c].known[n].reachable /\ Valid(checking[c].known[n])

-----------------------------------------------------------------------------
\* Types.
ReadinessTypeOK ==
    /\ setup \in [fixture : BOOLEAN, manifest : BOOLEAN, probes : SUBSET Components]
    /\ now \in 0 .. MaxNow
    /\ cache \in [Components -> Entry \cup {NoEntry}]
    /\ checking \in [Checkers -> Calls]

\* A call that answers ready outside the fixture mode has for every component a
\* response that passed the gates, was received at most ttl_seconds before the
\* instant the answer names (checked_at), by whichever thread, and whose snapshot
\* was not older than the policy allows at that instant (FormalReadinessService.check:
\* cached entries are stamped with the start of the call that stored them).
ReadyIsEvidenced ==
    \A c \in Checkers : checking[c].pc = "answered" /\ Ready(c) /\ ~setup.fixture =>
        \A n \in Components : LET s == checking[c].known[n] IN
            /\ n \in setup.probes /\ s.gates
            /\ s.heard >= checking[c].at - Ttl
            /\ checking[c].at - s.born <= MaxAge

=============================================================================

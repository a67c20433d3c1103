------------------------------ MODULE Sessions ------------------------------
(* The runs of one bot and the lease of its role.                          *)
(*                                                                         *)
(* A run is minted by a boot, gets its card with its first write, and ends *)
(* wrapped or abandoned.  Boots, claims, beats and wraps of one bot hold   *)
(* the bot's gate from their first read to their last write, so each is    *)
(* one step here; the writes inside it that a store may refuse are chosen  *)
(* one by one, and a verb that stops at a refused write keeps what it      *)
(* wrote before.  What runs outside the gate has steps of its own: the     *)
(* clock, the wait of a claim for the gate, and the renewals of a lease,   *)
(* which read the lease and write it at two different times.               *)
(*                                                                         *)
(* A key is whether any sitting holds a key that opens the run; which      *)
(* sitting it is, is left out, and so are the days a run states, the       *)
(* vouchers (a step of the wrap that may fail) and the words of a journal. *)
EXTENDS Naturals, FiniteSets

CONSTANTS
    Runs,            \* the names a boot may mint
    Lease,           \* LEASE_FRESHNESS
    RenewAfter,      \* LEASE_RENEWS_AFTER
    WrapWindow,      \* WRAP_WINDOW_HOURS
    AbandonedAfter,  \* ABANDONED_AFTER
    Horizon,         \* bound: the last moment of the clock
    MaxWaiting,      \* bound: claims and renewals in flight at once
    MaxStories,      \* bound: closing entries of a run
    NoRun,
    NoAsk

ASSUME SessionsAssumption ==
    /\ {Lease, RenewAfter, WrapWindow, AbandonedAfter, Horizon, MaxWaiting, MaxStories} \subseteq Nat
    /\ RenewAfter <= Lease
    /\ Lease <= AbandonedAfter
    /\ NoRun \notin Runs

VARIABLES
    now,
    run,       \* the cards, and the names minted that have none yet
    role,      \* the holder and the moment on the role's object
    asks,      \* the claims that wait for the gate
    renewals   \* the renewals in flight, outside the gate

vars == <<now, run, role, asks, renewals>>

Time == 0 .. Horizon

RunStates == {"none", "minted", "active", "wrapped", "abandoned"}

\* `began` is the moment of the boot, `beat` of the newest entry while the
\* run is active (nothing reads it later), `told` of the newest of the
\* `closings` closing entries.  `stuck` says that a newer run could not clear
\* the open window (history).
RunRecords ==
    [state : RunStates, began : Time, beat : Time, told : Time, closings : 0 .. MaxStories,
     window : {"none", "offered", "open"}, stuck : BOOLEAN, key : BOOLEAN]

Waiting == Cardinality({r \in Runs : asks[r] # NoAsk}) + Cardinality(renewals)

Renewals == [by : Runs, at : Time, stage : {"asked", "due"}]

\* The variables have their types (the cards, the lease, the calls in flight).
TypeOK ==
    /\ now \in Time
    /\ run \in [Runs -> RunRecords]
    /\ role \in [holder : Runs \cup {NoRun}, at : Time]
    /\ asks \in [Runs -> [at : Time, word : BOOLEAN] \cup {NoAsk}]
    /\ renewals \subseteq Renewals

Unborn ==
    [state |-> "none", began |-> 0, beat |-> 0, told |-> 0, closings |-> 0,
     window |-> "none", stuck |-> FALSE, key |-> FALSE]

Vacant == [holder |-> NoRun, at |-> 0]

Init ==
    /\ now = 0
    /\ run = [r \in Runs |-> Unborn]
    /\ role = Vacant
    /\ asks = [r \in Runs |-> NoAsk]
    /\ renewals = {}

-----------------------------------------------------------------------------
(* What a card says.                                                       *)

HasCard(r) == run[r].state \in {"active", "wrapped", "abandoned"}

TakesWrites(c) == c.state = "active" \/ (c.state = "wrapped" /\ c.window = "open")

Lapsed(c) == c.state = "wrapped" /\ c.window # "none" /\ now >= c.told + WrapWindow

Stale(r) == run[r].state = "active" /\ now >= run[r].beat + AbandonedAfter

\* A run of the bot with a card, begun after r.
Newer(r) == \E s \in Runs \ {r} : HasCard(s) /\ run[s].began > run[r].began

WindowsOpen == {r \in Runs : run[r].window # "none"}

NoWindow(c) == [c EXCEPT !.window = "none", !.stuck = FALSE]

\* A newer run clears every window of the cards cs but those the store keeps.
EndWindows(cs, kept) ==
    [r \in Runs |-> IF r \notin WindowsOpen THEN cs[r]
                    ELSE IF r \in kept THEN [cs[r] EXCEPT !.stuck = (@ \/ cs[r].window = "open")]
                    ELSE NoWindow(cs[r])]

\* Mutant: a first write that leaves the windows of older runs open.
BeginBeside(r, cs, kept) ==
    [cs EXCEPT ![r].state = "active", ![r].beat = run[r].began]

\* The first write of a minted run makes its card, which is a newer run.
Begin(r, cs, kept) ==
    [EndWindows(cs, kept) EXCEPT ![r].state = "active", ![r].beat = run[r].began]

\* The cards a write of r finds: its own made now if it had none.
CardsFor(r) ==
    IF run[r].state = "minted" THEN {Begin(r, run, kept) : kept \in SUBSET WindowsOpen}
                               ELSE {run}

\* A lapsed window is ended before the write that met it is judged.
Judged(r, cs) == IF Lapsed(cs[r]) THEN [cs EXCEPT ![r] = NoWindow(cs[r])] ELSE cs

-----------------------------------------------------------------------------
(* Boots.  Every boot but one by wrap code sweeps first: it closes stale   *)
(* runs and releases the role of each run it closed.                       *)

StaleRuns == {r \in Runs : Stale(r)}

Closed(rs) ==
    [r \in Runs |-> IF r \in rs
                    THEN [NoWindow(run[r]) EXCEPT !.state = "abandoned"]
                    ELSE run[r]]

\* The release of the role, where one of the runs rs holds it.
Release(rs) == role' = IF role.holder \in rs THEN Vacant ELSE role

\* The stale runs the store closed, and the release it took for them or not.
ReleaseSwept(swept) == Release(swept) \/ Release({})

\* A fresh run beside the others, answered at once or to an offer.
BootNew(r) ==
    /\ run[r].state = "none"
    /\ \E swept \in SUBSET StaleRuns, kept \in SUBSET WindowsOpen :
        /\ run' = [EndWindows(Closed(swept), kept) EXCEPT
                       ![r] = [Unborn EXCEPT !.state = "minted", !.began = now,
                                             !.beat = now, !.key = TRUE]]
        /\ ReleaseSwept(swept)
    /\ UNCHANGED <<now, asks, renewals>>

\* Runs are offered back and no handle is handed out.
BootOffers ==
    /\ \E r \in Runs : run[r].state \in {"active", "abandoned"}
    /\ \E swept \in SUBSET StaleRuns :
        /\ run' = Closed(swept)
        /\ ReleaseSwept(swept)
    /\ UNCHANGED <<now, asks, renewals>>

\* Mutant: a wrapped run is picked up by its name too.
ResumeAny(r) ==
    \E swept \in SUBSET StaleRuns :
        /\ Closed(swept)[r].state \in {"abandoned", "wrapped"}
        /\ run' = [Closed(swept) EXCEPT ![r].state = "active", ![r].key = TRUE]
        /\ ReleaseSwept(swept)
        /\ UNCHANGED <<now, asks, renewals>>

\* A stopped run is picked up by its name: a new key, then the reopen.
Resume(r) ==
    \E swept \in SUBSET StaleRuns :
        /\ Closed(swept)[r].state = "abandoned"
        /\ run' = [Closed(swept) EXCEPT ![r].state = "active", ![r].key = TRUE]
        /\ ReleaseSwept(swept)
        /\ UNCHANGED <<now, asks, renewals>>

\* A wrap code opens the window of the run it was handed back for, unless a
\* newer run or the clock has ended it.
ResumeByCode(r) ==
    /\ run[r].state = "wrapped" /\ run[r].window = "offered"
    /\ \/ /\ Newer(r)
          /\ \E kept \in SUBSET WindowsOpen : run' = EndWindows(run, kept)
       \/ /\ ~Newer(r) /\ ~Lapsed(run[r])
          /\ run' = [run EXCEPT ![r].window = "open", ![r].stuck = FALSE, ![r].key = TRUE]
    /\ UNCHANGED <<now, role, asks, renewals>>

-----------------------------------------------------------------------------
(* The claim of the role.                                                  *)

\* The call names the role while its run stands, and takes the moment of the
\* claim before it waits for the gate.  word: a code the operator typed.
\* (bound: one code at a time)
AskClaim(r, word) ==
    /\ run[r].key /\ run[r].state \in {"minted", "active"}
    /\ asks[r] = NoAsk /\ Waiting < MaxWaiting
    /\ word => \A s \in Runs : asks[s] # NoAsk => ~asks[s].word
    /\ asks' = [asks EXCEPT ![r] = [at |-> now, word |-> word]]
    /\ UNCHANGED <<now, run, role, renewals>>

\* Mutant: a lease that ends one moment early.
MayTakeEarly(r, at) ==
    role.holder \in {NoRun, r} \/ at + 1 >= role.at + Lease

\* claim_role: another holder's fresh lease refuses, nothing else does.
MayTake(r, at) ==
    role.holder \in {NoRun, r} \/ at >= role.at + Lease

\* The claim lands over the cards cs, with a card for its run if the store
\* takes one.
Take(r, cs) ==
    /\ role' = [holder |-> r, at |-> asks[r].at]
    /\ \/ /\ run[r].state = "minted"
          /\ \E kept \in SUBSET WindowsOpen : run' = Begin(r, cs, kept)
       \/ run' = cs

\* The run that held the role is closed as displaced.
Displaced(h) ==
    IF run[h].state = "active"
    THEN [run EXCEPT ![h].state = "abandoned"]
    ELSE run

\* A holder that is over, or that the operator's word replaces, gives the role
\* up to a claim its lease refused; one without a card cannot be found.
Yields(h, word) == run[h].state \in {"wrapped", "abandoned"} \/ (run[h].state = "active" /\ word)

\* The gate is free and the claim is decided, for a run that may be over by
\* now.  Refused by a fresh lease, it releases a holder that yields, closes
\* it, and is made once more; the store may refuse each of the three.
DecideClaim(r) ==
    LET h == role.holder IN
    /\ asks[r] # NoAsk
    /\ asks' = [asks EXCEPT ![r] = NoAsk]
    /\ \/ UNCHANGED <<run, role>>
       \/ MayTake(r, asks[r].at) /\ Take(r, run)
       \/ /\ ~MayTake(r, asks[r].at)
          /\ Yields(h, asks[r].word)
          /\ \E cards \in {run, Displaced(h)} :
              Take(r, cards) \/ (run' = cards /\ Release({h}))
    /\ UNCHANGED <<now, renewals>>

-----------------------------------------------------------------------------
(* Writes, polls and the renewals they start.                              *)

RenewalDue(r, at) == role.holder = r /\ at >= role.at + RenewAfter

\* A journal entry, an amend or the tally of another verb: it lands on a run
\* that takes writes, and the first two renew the lease before the gate opens.
Journal(r) ==
    /\ run[r].key /\ run[r].state # "none"
    /\ \E made \in CardsFor(r) :
        LET cards == Judged(r, made) IN
        \/ /\ TakesWrites(cards[r])
           /\ run' = [cards EXCEPT ![r].beat = IF cards[r].state = "active" THEN now ELSE @]
           /\ \/ UNCHANGED role
              \/ RenewalDue(r, now) /\ role' = [holder |-> r, at |-> now]
        \/ /\ ~TakesWrites(cards[r])
           /\ run' = cards
           /\ UNCHANGED role
    /\ UNCHANGED <<now, asks, renewals>>

\* A read of one's own box starts a renewal outside the gate, unless one of
\* the run's still runs; another verb's write does too, before its tally.
\* (bound: one renewal at a time, and one that may find the lease due: a run
\* with no claim waiting whose lease is not due now holds none that is due when
\* the renewal reads, as only later moments are written)
Poll(r) ==
    /\ run[r].key /\ run[r].state # "none"
    /\ RenewalDue(r, now) \/ asks[r] # NoAsk
    /\ renewals = {} /\ Waiting < MaxWaiting
    /\ renewals' = renewals \cup {[by |-> r, at |-> now, stage |-> "asked"]}
    /\ UNCHANGED <<now, run, role, asks>>

\* The pre-read: a run that holds nothing, or whose lease is young, is done.
RenewalReads(m) ==
    /\ m.stage = "asked"
    /\ renewals' = (renewals \ {m}) \cup
                   (IF RenewalDue(m.by, m.at)
                    THEN {[m EXCEPT !.stage = "due"]} ELSE {})
    /\ UNCHANGED <<now, run, role, asks>>

\* Mutant: a renewal written as a claim, which may take a role nobody holds.
RenewalClaims(m) ==
    /\ m.stage = "due"
    /\ renewals' = renewals \ {m}
    /\ role' = IF role.holder \in {m.by, NoRun} THEN [holder |-> m.by, at |-> m.at] ELSE role
    /\ UNCHANGED <<now, run, asks>>

\* The store applies a renewal only while its run still holds the role.
RenewalWrites(m) ==
    /\ m.stage = "due"
    /\ renewals' = renewals \ {m}
    /\ role' = IF role.holder = m.by THEN [holder |-> m.by, at |-> m.at] ELSE role
    /\ UNCHANGED <<now, run, asks>>

\* The timeout of a renewal, or a store that refuses it.
RenewalCut(m) ==
    /\ renewals' = renewals \ {m}
    /\ UNCHANGED <<now, run, role, asks>>

-----------------------------------------------------------------------------
(* The wrap.                                                               *)

\* The card once the story is told; a story told before is not told again.
Told(c, again) ==
    IF again THEN c
    ELSE [c EXCEPT !.told = now, !.closings = @ + 1,
                   !.beat = IF c.state = "active" THEN now ELSE @]

MayTell(r) ==
    /\ run[r].closings < MaxStories
    /\ run[r].closings + 1 = MaxStories => \A s \in Runs : run[s].closings < MaxStories

\* A wrap of a run that took writes while wrapped, or was closed twice.
SecondWrap(c) == c.state = "wrapped" /\ (TakesWrites(c) \/ c.closings >= 2)

\* again: the story is one a closing entry already tells.  The wrap stops at
\* the first refused write of the story, the vouchers, the close and the key;
\* a refused release or window does not stop it.  (bound: the last story of a
\* run is not one that fails to close it, and one run tells as many as that)
Wrap(r, again) ==
    /\ run[r].key /\ run[r].state # "none"
    /\ IF again THEN run[r].closings > 0 ELSE MayTell(r)
    /\ \E made \in CardsFor(r) :
        LET cards  == Judged(r, made)
            before == cards[r]
            told   == Told(before, again)
            closed == [NoWindow(told) EXCEPT !.state = "wrapped", !.beat = 0]
            Tells  == again \/ TakesWrites(before)
            Closes == Tells /\ (TakesWrites(before) \/ before.state = "wrapped")
            Offers == IF SecondWrap(before) THEN {"none"} ELSE {"none", "offered"}
        IN
        \/ run' = cards /\ UNCHANGED role
        \/ /\ Tells /\ told.closings < MaxStories
           /\ run' = [cards EXCEPT ![r] = told]
           /\ UNCHANGED role
        \/ Closes /\ run' = [cards EXCEPT ![r] = closed] /\ UNCHANGED role
        \/ /\ Closes
           /\ \E window \in Offers :
               run' = [cards EXCEPT ![r] = [closed EXCEPT !.key = FALSE, !.window = window]]
           /\ Release({r}) \/ UNCHANGED role
    /\ UNCHANGED <<now, asks, renewals>>

-----------------------------------------------------------------------------

\* The process dies and starts again: what was waiting or in flight is gone.
Restart ==
    /\ asks # [r \in Runs |-> NoAsk] \/ renewals # {}
    /\ asks' = [r \in Runs |-> NoAsk]
    /\ renewals' = {}
    /\ UNCHANGED <<now, run, role>>

\* (bound: of what waits at once, one waits while the clock moves)
Tick ==
    /\ now < Horizon /\ Waiting < MaxWaiting
    /\ now' = now + 1
    /\ UNCHANGED <<run, role, asks, renewals>>

Next ==
    \/ \E r \in Runs :
        \/ BootNew(r) \/ Resume(r) \/ ResumeByCode(r)
        \/ \E word \in BOOLEAN : AskClaim(r, word)
        \/ DecideClaim(r)
        \/ Journal(r) \/ Poll(r)
        \/ \E again \in BOOLEAN : Wrap(r, again)
    \/ BootOffers
    \/ \E m \in renewals : RenewalReads(m) \/ RenewalWrites(m) \/ RenewalCut(m)
    \/ Restart
    \/ Tick

Spec == Init /\ [][Next]_vars

-----------------------------------------------------------------------------

\* A run becomes the holder only by a claim of its own: a renewal decided
\* before a release or a takeover and written after it leases nothing
\* (RoleMove, journal.rs write_role_claims).
OnlyClaimsTake ==
    [][\A r \in Runs : role'.holder = r /\ role.holder # r =>
           asks[r] # NoAsk /\ asks'[r] = NoAsk]_vars

\* A window that takes writes is the newest card's: a card begun later has
\* ended it, whichever of boot, first write and use of the code came first,
\* unless the store refused to clear it (end_windows, resume_by_wrap_code).
NewerRunEndsWindow ==
    \A r \in Runs : run[r].window = "open" /\ Newer(r) => run[r].stuck

\* Wrapped is the last word: no sweep, takeover or resume moves a wrapped run
\* to another state (close_with, reopen).
LastWord ==
    [][\A r \in Runs : run[r].state = "wrapped" => run'[r].state = "wrapped"]_vars

\* The lease of h is fresh, h is an active run, and this step takes the role.
LosesFreshLease(h) ==
    /\ role.holder = h /\ run[h].state = "active" /\ now < role.at + Lease
    /\ role'.holder # h

\* A claim decided in this step carries the operator's word.
AtTheWord == \E r \in Runs : asks[r] # NoAsk /\ asks'[r] = NoAsk /\ asks[r].word

\* An active run loses a fresh lease only by its own wrap, at the operator's
\* word, or because the sweep of a boot found it a day without a beat
\* (decide_role_claim, attach).
LeaseLostForCause ==
    [][\A h \in Runs : LosesFreshLease(h) =>
           run'[h].state = "wrapped" \/ AtTheWord \/ Stale(h)]_vars
=============================================================================

--------------------------- MODULE SessionsProofs ---------------------------
(* Proofs about the runs of a bot and the lease of its role, for every set *)
(* of runs, every length of lease, window and abandonment and any number   *)
(* of claims and renewals in flight.                                       *)
(*                                                                         *)
(* A step of the gate goes from the cards that stand to new cards through  *)
(* several writes, each of which the store may refuse.  What every list of *)
(* cards on that way keeps is Grows: wrapped runs stay wrapped, cards stay *)
(* cards, and no window opens.  A list of cards that holds a new card has  *)
(* ended the open windows, or they are stuck (Sound).                      *)
(*                                                                         *)
(* The lease needs one fact of its own: a claim that waits was asked for   *)
(* no later than now (AsksPast), so it cannot find a lease due that is     *)
(* fresh when the claim is decided.                                        *)
EXTENDS Sessions, TLAPS

\* A claim that waits was asked for at a moment that has come.
AsksPast == \A r \in Runs : asks[r] # NoAsk => asks[r].at <= now

\* The invariant behind NewerRunEndsWindow and LeaseLostForCause.
Inv == TypeOK /\ AsksPast /\ NewerRunEndsWindow

Cards == {"active", "wrapped", "abandoned"}

\* The cards cs keep what the cards that stand have settled.
Grows(cs) ==
    /\ cs \in [Runs -> RunRecords]
    /\ \A s \in Runs :
        /\ run[s].state = "wrapped" => cs[s].state = "wrapped"
        /\ run[s].state \in Cards => cs[s].state \in Cards /\ cs[s].began = run[s].began
        /\ cs[s].window = "open" =>
            /\ run[s].window = "open"
            /\ run[s].stuck => cs[s].stuck
            /\ cs[s].began = run[s].began

\* No run has a card among cs that had none.
NoNewCard(cs) == \A s \in Runs : cs[s].state \in Cards => run[s].state \in Cards

\* Every window still open among cs is one the store did not clear.
WindowsEnded(cs) == \A s \in Runs : cs[s].window = "open" => cs[s].stuck

Sound(cs) == Grows(cs) /\ (NoNewCard(cs) \/ WindowsEnded(cs))

-----------------------------------------------------------------------------
(* What the operators on cards keep.                                       *)

LEMMA CardFields ==
    ASSUME NEW c \in RunRecords
    PROVE  /\ c.state \in RunStates /\ c.began \in Time /\ c.beat \in Time /\ c.told \in Time
           /\ c.closings \in 0 .. MaxStories
           /\ c.window \in {"none", "offered", "open"}
           /\ c.stuck \in BOOLEAN /\ c.key \in BOOLEAN
BY DEF RunRecords

LEMMA NoWindowFields ==
    ASSUME NEW c \in RunRecords
    PROVE  /\ NoWindow(c) \in RunRecords
           /\ NoWindow(c).window = "none"
           /\ NoWindow(c).state = c.state /\ NoWindow(c).began = c.began
           /\ NoWindow(c).closings = c.closings
<1>1. FALSE \in BOOLEAN
  BY Zenon
<1>2. QED
  BY <1>1 DEF NoWindow, RunRecords

LEMMA StandingIsSound == TypeOK => Sound(run)
BY DEF TypeOK, Sound, Grows, NoNewCard

LEMMA ClosedSound ==
    ASSUME TypeOK, NEW swept \in SUBSET StaleRuns
    PROVE  Sound(Closed(swept)) /\ NoNewCard(Closed(swept))
<1>1. \A s \in swept : s \in Runs /\ run[s].state = "active"
  BY DEF StaleRuns, Stale
<1>2. ASSUME NEW s \in swept
      PROVE  /\ Closed(swept)[s] \in RunRecords
             /\ Closed(swept)[s].state = "abandoned" /\ Closed(swept)[s].window = "none"
             /\ Closed(swept)[s].began = run[s].began
  <2>1. run[s] \in RunRecords
    BY <1>1, <1>2 DEF TypeOK
  <2>2. Closed(swept)[s] = [NoWindow(run[s]) EXCEPT !.state = "abandoned"]
    BY <1>1, <1>2 DEF Closed
  <2>3. QED
    BY <2>1, <2>2, NoWindowFields DEF RunRecords, RunStates
<1>3. \A s \in Runs \ swept : Closed(swept)[s] = run[s]
  BY DEF Closed
<1>4. Closed(swept) \in [Runs -> RunRecords]
  <2>1. DOMAIN Closed(swept) = Runs /\ Closed(swept) = [s \in Runs |-> Closed(swept)[s]]
    BY DEF Closed
  <2>2. \A s \in Runs : Closed(swept)[s] \in RunRecords
    BY <1>2, <1>3 DEF TypeOK
  <2>3. QED
    BY <2>1, <2>2
<1>5. QED
  BY <1>1, <1>2, <1>3, <1>4 DEF Sound, Grows, NoNewCard, Cards

LEMMA EndWindowsSound ==
    ASSUME TypeOK, NEW cs, Grows(cs), NEW kept
    PROVE  /\ Grows(EndWindows(cs, kept)) /\ WindowsEnded(EndWindows(cs, kept))
           /\ \A s \in Runs : /\ EndWindows(cs, kept)[s].state = cs[s].state
                              /\ EndWindows(cs, kept)[s].closings = cs[s].closings
<1> DEFINE es == EndWindows(cs, kept)
<1>1. ASSUME NEW s \in Runs
      PROVE  /\ es[s] \in RunRecords
             /\ es[s].state = cs[s].state /\ es[s].began = cs[s].began
             /\ es[s].closings = cs[s].closings
             /\ es[s].window = "open" => cs[s].window = "open" /\ es[s].stuck
  <2>1. cs[s] \in RunRecords
    BY DEF Grows
  <2>2. CASE s \notin WindowsOpen
    <3>1. es[s] = cs[s] /\ run[s].window = "none"
      BY <2>2 DEF EndWindows, WindowsOpen
    <3>2. QED
      BY <2>1, <3>1 DEF Grows
  <2>3. CASE s \in WindowsOpen /\ s \in kept
    <3>1. es[s] = [cs[s] EXCEPT !.stuck = (cs[s].stuck \/ cs[s].window = "open")]
      BY <2>3 DEF EndWindows
    <3>2. (cs[s].stuck \/ cs[s].window = "open") \in BOOLEAN
      OBVIOUS
    <3>3. es[s] \in RunRecords /\ es[s].state = cs[s].state /\ es[s].began = cs[s].began
          /\ es[s].window = cs[s].window /\ es[s].closings = cs[s].closings
      BY <2>1, <3>1, <3>2 DEF RunRecords
    <3>4. es[s].stuck = (cs[s].stuck \/ cs[s].window = "open")
      BY <2>1, <3>1 DEF RunRecords
    <3>5. QED
      BY <3>3, <3>4
  <2>4. CASE s \in WindowsOpen /\ s \notin kept
    <3>1. es[s] = NoWindow(cs[s])
      BY <2>4 DEF EndWindows
    <3>2. QED
      BY <2>1, <3>1, NoWindowFields
  <2>5. QED
    BY <2>2, <2>3, <2>4
<1>2. es \in [Runs -> RunRecords]
  <2>1. es = [s \in Runs |-> es[s]]
    BY DEF EndWindows
  <2>2. QED
    BY <1>1, <2>1
<1>3. QED
  BY <1>1, <1>2 DEF Grows, WindowsEnded

\* One card is put in place of another of the same run.
LEMMA PutSound ==
    ASSUME TypeOK, NEW cs, Sound(cs), NEW r \in Runs, NEW c \in RunRecords,
           run[r].state = "wrapped" => c.state = "wrapped",
           c.state \in Cards, cs[r].state \in Cards, c.began = cs[r].began,
           c.window = "open" => cs[r].window = "open" /\ (cs[r].stuck => c.stuck)
    PROVE  Sound([cs EXCEPT ![r] = c])
BY DEF Sound, Grows, NoNewCard, WindowsEnded

LEMMA BeginSound ==
    ASSUME TypeOK, NEW r \in Runs, run[r].state = "minted", NEW cs, Sound(cs), NEW kept
    PROVE  /\ Sound(Begin(r, cs, kept)) /\ Begin(r, cs, kept)[r].state = "active"
           /\ Begin(r, cs, kept)[r].closings = cs[r].closings
<1> DEFINE es == EndWindows(cs, kept)
           c  == [es[r] EXCEPT !.state = "active", !.beat = run[r].began]
<1>1. Grows(es) /\ WindowsEnded(es) /\ es[r].closings = cs[r].closings
  BY EndWindowsSound DEF Sound
<1>2. es[r] \in RunRecords /\ run[r] \in RunRecords
  BY <1>1 DEF Grows, TypeOK
<1>3. c \in RunRecords /\ c.state = "active" /\ c.began = es[r].began /\ c.window = es[r].window
      /\ c.stuck = es[r].stuck /\ c.closings = es[r].closings
  BY <1>2 DEF RunRecords, RunStates
<1>4. Begin(r, cs, kept) = [es EXCEPT ![r] = c]
  BY <1>1 DEF Begin, Grows
<1> HIDE DEF es, c
<1>5. QED
  BY <1>1, <1>3, <1>4 DEF Sound, Grows, WindowsEnded, Cards

LEMMA CardsForSound ==
    ASSUME TypeOK, NEW r \in Runs, run[r].state # "none", NEW cs \in CardsFor(r)
    PROVE  Sound(cs) /\ cs[r].state \in Cards /\ cs[r].closings = run[r].closings
<1>1. CASE run[r].state = "minted"
  <2>1. PICK kept \in SUBSET WindowsOpen : cs = Begin(r, run, kept)
    BY <1>1 DEF CardsFor
  <2>2. QED
    BY <1>1, <2>1, BeginSound, StandingIsSound DEF Cards
<1>2. CASE run[r].state # "minted"
  <2>1. cs = run
    BY <1>2 DEF CardsFor
  <2>2. run[r].state \in Cards
    BY <1>2 DEF TypeOK, RunRecords, RunStates, Cards
  <2>3. QED
    BY <2>1, <2>2, StandingIsSound
<1>3. QED
  BY <1>1, <1>2

LEMMA JudgedSound ==
    ASSUME TypeOK, NEW r \in Runs, NEW cs, Sound(cs), cs[r].state \in Cards
    PROVE  /\ Sound(Judged(r, cs)) /\ Judged(r, cs)[r].state = cs[r].state
           /\ Judged(r, cs)[r].closings = cs[r].closings
<1>1. CASE Lapsed(cs[r])
  <2>1. cs[r] \in RunRecords /\ DOMAIN cs = Runs
    BY DEF Sound, Grows
  <2>2. Judged(r, cs) = [cs EXCEPT ![r] = NoWindow(cs[r])]
    BY <1>1 DEF Judged
  <2>3. run[r].state = "wrapped" => cs[r].state = "wrapped"
    BY DEF Sound, Grows
  <2>4. /\ NoWindow(cs[r]) \in RunRecords /\ NoWindow(cs[r]).window # "open"
        /\ NoWindow(cs[r]).state = cs[r].state /\ NoWindow(cs[r]).began = cs[r].began
        /\ NoWindow(cs[r]).closings = cs[r].closings
    BY <2>1, NoWindowFields
  <2>5. Sound([cs EXCEPT ![r] = NoWindow(cs[r])])
    BY <2>3, <2>4, PutSound
  <2>6. [cs EXCEPT ![r] = NoWindow(cs[r])][r] = NoWindow(cs[r])
    BY <2>1
  <2>7. QED
    BY <2>2, <2>4, <2>5, <2>6
<1>2. CASE ~Lapsed(cs[r])
  BY <1>2 DEF Judged
<1>3. QED
  BY <1>1, <1>2

\* The cards a write of r is judged on.
LEMMA WriteFinds ==
    ASSUME TypeOK, NEW r \in Runs, run[r].state # "none", NEW made \in CardsFor(r)
    PROVE  /\ Sound(Judged(r, made)) /\ Judged(r, made)[r].state \in Cards
           /\ Judged(r, made)[r] \in RunRecords
           /\ Judged(r, made)[r].closings = run[r].closings
           /\ run[r].state = "wrapped" => Judged(r, made)[r].state = "wrapped"
BY CardsForSound, JudgedSound DEF Sound, Grows

-----------------------------------------------------------------------------
(* The steps of the gate.                                                  *)

LEMMA BootNewSound == TypeOK => \A r \in Runs : BootNew(r) => Sound(run')
<1> SUFFICES ASSUME TypeOK, NEW r \in Runs, BootNew(r) PROVE Sound(run')
  OBVIOUS
<1>1. PICK swept \in SUBSET StaleRuns, kept \in SUBSET WindowsOpen :
        run' = [EndWindows(Closed(swept), kept) EXCEPT
                    ![r] = [Unborn EXCEPT !.state = "minted", !.began = now,
                                          !.beat = now, !.key = TRUE]]
  BY DEF BootNew
<1> DEFINE es == EndWindows(Closed(swept), kept)
           c  == [Unborn EXCEPT !.state = "minted", !.began = now, !.beat = now, !.key = TRUE]
<1>2. Grows(es) /\ NoNewCard(es)
  BY ClosedSound, EndWindowsSound DEF Sound, NoNewCard
<1>3. c \in RunRecords
  <2>1. TRUE \in BOOLEAN /\ FALSE \in BOOLEAN
    BY Zenon
  <2>2. 0 \in Time /\ 0 \in 0 .. MaxStories
    BY SessionsAssumption DEF Time
  <2>3. Unborn \in RunRecords
    BY <2>1, <2>2 DEF Unborn, RunRecords, RunStates
  <2>4. now \in Time
    BY DEF TypeOK
  <2>5. QED
    BY <2>1, <2>3, <2>4 DEF RunRecords, RunStates
<1>4. c.state = "minted" /\ c.window = "none"
  BY DEF Unborn
<1>5. run[r].state = "none" /\ run' = [es EXCEPT ![r] = c]
  BY <1>1 DEF BootNew
<1> HIDE DEF es, c
<1>6. QED
  BY <1>2, <1>3, <1>4, <1>5 DEF Sound, Grows, NoNewCard, Cards

LEMMA BootOffersSound == TypeOK /\ BootOffers => Sound(run')
BY ClosedSound DEF BootOffers

LEMMA ResumeSound == TypeOK => \A r \in Runs : Resume(r) => Sound(run')
<1> SUFFICES ASSUME TypeOK, NEW r \in Runs, Resume(r) PROVE Sound(run')
  OBVIOUS
<1>1. PICK swept \in SUBSET StaleRuns :
        /\ Closed(swept)[r].state = "abandoned"
        /\ run' = [Closed(swept) EXCEPT ![r].state = "active", ![r].key = TRUE]
  BY DEF Resume
<1> DEFINE cs == Closed(swept)
           c  == [cs[r] EXCEPT !.state = "active", !.key = TRUE]
<1>2. Sound(cs) /\ cs[r] \in RunRecords /\ DOMAIN cs = Runs
  BY ClosedSound DEF Sound, Grows
<1>3. run' = [cs EXCEPT ![r] = c]
  BY <1>1, <1>2
<1>4. c \in RunRecords /\ c.state = "active" /\ c.began = cs[r].began
      /\ c.window = cs[r].window /\ c.stuck = cs[r].stuck
  <2>1. TRUE \in BOOLEAN
    BY Zenon
  <2>2. QED
    BY <1>2, <2>1 DEF RunRecords, RunStates
<1>5. run[r].state # "wrapped" /\ cs[r].state \in Cards
  BY <1>1, <1>2 DEF Sound, Grows, Cards
<1> HIDE DEF cs, c
<1>6. QED
  BY <1>2, <1>3, <1>4, <1>5, PutSound DEF Cards

LEMMA TakeSound ==
    ASSUME TypeOK, NEW r \in Runs, NEW cs, Sound(cs), Take(r, cs)
    PROVE  Sound(run')
BY BeginSound DEF Take

LEMMA DisplacedSound ==
    ASSUME TypeOK, NEW h \in Runs
    PROVE  Sound(Displaced(h))
<1>1. CASE run[h].state = "active"
  <2> DEFINE c == [run[h] EXCEPT !.state = "abandoned"]
  <2>1. run[h] \in RunRecords /\ Displaced(h) = [run EXCEPT ![h] = c]
    BY <1>1 DEF TypeOK, Displaced
  <2>2. c \in RunRecords /\ c.state = "abandoned" /\ c.began = run[h].began
        /\ c.window = run[h].window /\ c.stuck = run[h].stuck
    BY <2>1 DEF RunRecords, RunStates
  <2> HIDE DEF c
  <2>3. run[h].state \in Cards /\ c.state \in Cards
    BY <1>1, <2>2 DEF Cards
  <2>4. Sound([run EXCEPT ![h] = c])
    BY <1>1, <2>2, <2>3, StandingIsSound, PutSound
  <2>5. QED
    BY <2>1, <2>4
<1>2. CASE run[h].state # "active"
  BY <1>2, StandingIsSound DEF Displaced
<1>3. QED
  BY <1>1, <1>2

LEMMA DecideSound == TypeOK => \A r \in Runs : DecideClaim(r) => Sound(run')
<1> SUFFICES ASSUME TypeOK, NEW r \in Runs, DecideClaim(r) PROVE Sound(run')
  OBVIOUS
<1>1. CASE run' = run
  BY <1>1, StandingIsSound
<1>2. CASE Take(r, run)
  BY <1>2, StandingIsSound, TakeSound
<1>3. CASE /\ ~MayTake(r, asks[r].at)
           /\ \E cards \in {run, Displaced(role.holder)} : Take(r, cards) \/ run' = cards
  <2>1. role.holder \in Runs
    BY <1>3 DEF MayTake, TypeOK
  <2>2. Sound(run) /\ Sound(Displaced(role.holder))
    BY <2>1, StandingIsSound, DisplacedSound
  <2>3. QED
    BY <1>3, <2>2, TakeSound
<1>4. QED
  BY <1>1, <1>2, <1>3 DEF DecideClaim

LEMMA JournalSound == TypeOK => \A r \in Runs : Journal(r) => Sound(run')
<1> SUFFICES ASSUME TypeOK, NEW r \in Runs, Journal(r) PROVE Sound(run')
  OBVIOUS
<1>1. PICK made \in CardsFor(r) :
        \/ run' = [Judged(r, made) EXCEPT
                     ![r].beat = IF Judged(r, made)[r].state = "active" THEN now ELSE @]
        \/ run' = Judged(r, made)
  BY DEF Journal
<1> DEFINE cs == Judged(r, made)
           c  == [cs[r] EXCEPT !.beat = IF cs[r].state = "active" THEN now ELSE cs[r].beat]
<1>2. /\ Sound(cs) /\ cs[r].state \in Cards /\ cs[r] \in RunRecords
      /\ run[r].state = "wrapped" => cs[r].state = "wrapped"
  BY WriteFinds DEF Journal
<1>3. CASE run' = cs
  BY <1>2, <1>3
<1>4. CASE run' = [cs EXCEPT ![r].beat = IF cs[r].state = "active" THEN now ELSE @]
  <2>1. run' = [cs EXCEPT ![r] = c]
    BY <1>2, <1>4 DEF Sound, Grows
  <2>2. c \in RunRecords /\ c.state = cs[r].state /\ c.began = cs[r].began
        /\ c.window = cs[r].window /\ c.stuck = cs[r].stuck
    BY <1>2 DEF RunRecords, TypeOK
  <2> HIDE DEF c, cs
  <2>3. QED
    BY <1>2, <2>1, <2>2, PutSound
<1>5. QED
  BY <1>1, <1>3, <1>4

LEMMA WrapSound == TypeOK => \A r \in Runs, again \in BOOLEAN : Wrap(r, again) => Sound(run')
<1> SUFFICES ASSUME TypeOK, NEW r \in Runs, NEW again \in BOOLEAN, Wrap(r, again)
             PROVE  Sound(run')
  OBVIOUS
<1> DEFINE Over(told) == [NoWindow(told) EXCEPT !.state = "wrapped", !.beat = 0]
<1>1. PICK made \in CardsFor(r) :
        LET cards  == Judged(r, made)
            told   == Told(cards[r], again)
            closed == Over(told)
        IN
        \/ run' = cards
        \/ run' = [cards EXCEPT ![r] = told]
        \/ run' = [cards EXCEPT ![r] = closed]
        \/ \E window \in {"none", "offered"} :
             run' = [cards EXCEPT ![r] = [closed EXCEPT !.key = FALSE, !.window = window]]
  BY DEF Wrap
<1> DEFINE cards  == Judged(r, made)
           before == cards[r]
           told   == Told(before, again)
           closed == Over(told)
<1>2. /\ Sound(cards) /\ before \in RunRecords /\ before.state \in Cards
      /\ before.closings = run[r].closings
      /\ run[r].state = "wrapped" => before.state = "wrapped"
  BY WriteFinds DEF Wrap
<1>3. /\ told \in RunRecords /\ told.state = before.state /\ told.began = before.began
      /\ told.window = before.window /\ told.stuck = before.stuck
  <2>1. CASE again
    BY <1>2, <2>1 DEF Told
  <2>2. CASE ~again
    <3>0. run[r].closings < MaxStories /\ run[r].closings \in 0 .. MaxStories
      <4>1. run[r] \in RunRecords
        BY DEF TypeOK
      <4>2. QED
        BY <2>2, <4>1, CardFields DEF Wrap, MayTell
    <3>1. before.closings + 1 \in 0 .. MaxStories
      BY <1>2, <3>0, SessionsAssumption
    <3>2. told = [before EXCEPT !.told = now, !.closings = before.closings + 1,
                                !.beat = IF before.state = "active" THEN now ELSE before.beat]
      BY <1>2, <2>2 DEF Told, RunRecords
    <3>3. QED
      BY <1>2, <3>1, <3>2 DEF RunRecords, TypeOK
  <2>3. QED
    BY <2>1, <2>2
<1>4. /\ closed \in RunRecords /\ closed.state = "wrapped" /\ closed.began = before.began
      /\ closed.window = "none"
  <2>1. 0 \in Time
    BY SessionsAssumption DEF Time
  <2>2. NoWindow(told) \in RunRecords /\ NoWindow(told).began = before.began
        /\ NoWindow(told).window = "none"
    BY <1>3, NoWindowFields
  <2>3. QED
    BY <2>1, <2>2 DEF RunRecords, RunStates
<1>5. ASSUME NEW window \in {"none", "offered"}
      PROVE  LET offer == [closed EXCEPT !.key = FALSE, !.window = window] IN
             /\ offer \in RunRecords /\ offer.state = "wrapped" /\ offer.began = before.began
             /\ offer.window # "open"
  <2>1. FALSE \in BOOLEAN
    BY Zenon
  <2>2. QED
    BY <1>4, <2>1 DEF RunRecords, RunStates
<1>6. "wrapped" \in Cards
  BY DEF Cards
<1> HIDE DEF closed, told, before, cards
<1>7. before = cards[r]
  BY DEF before
<1>8. CASE run' = cards
  BY <1>2, <1>8
<1>9. CASE run' = [cards EXCEPT ![r] = told]
  <2>1. Sound([cards EXCEPT ![r] = told])
    BY <1>2, <1>3, <1>7, PutSound
  <2>2. QED
    BY <1>9, <2>1
<1>10. CASE run' = [cards EXCEPT ![r] = closed]
  <2>1. Sound([cards EXCEPT ![r] = closed])
    BY <1>2, <1>4, <1>6, <1>7, PutSound
  <2>2. QED
    BY <1>10, <2>1
<1>11. CASE \E window \in {"none", "offered"} :
              run' = [cards EXCEPT ![r] = [closed EXCEPT !.key = FALSE, !.window = window]]
  <2>1. PICK window \in {"none", "offered"} :
          run' = [cards EXCEPT ![r] = [closed EXCEPT !.key = FALSE, !.window = window]]
    BY <1>11
  <2> DEFINE offer == [closed EXCEPT !.key = FALSE, !.window = window]
  <2>2. offer \in RunRecords /\ offer.state = "wrapped" /\ offer.began = before.began
        /\ offer.window # "open"
    BY <1>5
  <2>3. run' = [cards EXCEPT ![r] = offer]
    BY <2>1
  <2> HIDE DEF offer
  <2>4. Sound([cards EXCEPT ![r] = offer])
    BY <1>2, <1>6, <1>7, <2>2, PutSound
  <2>5. QED
    BY <2>3, <2>4
<1>12. QED
  BY <1>1, <1>8, <1>9, <1>10, <1>11 DEF cards, before, told, closed

\* The step that opens a window: no newer run has a card.
Opens(r) ==
    /\ run[r].state = "wrapped" /\ ~Newer(r)
    /\ run' = [run EXCEPT ![r].window = "open", ![r].stuck = FALSE, ![r].key = TRUE]

\* Every step leaves the cards, finds sound ones or opens one window.
LEMMA CardsMove ==
    TypeOK /\ [Next]_vars => Sound(run') \/ \E r \in Runs : Opens(r)
<1> SUFFICES ASSUME TypeOK, [Next]_vars
             PROVE  Sound(run') \/ \E r \in Runs : Opens(r)
  OBVIOUS
<1>1. CASE run' = run
  BY <1>1, StandingIsSound
<1>2. ASSUME NEW r \in Runs, ResumeByCode(r)
      PROVE  Sound(run') \/ Opens(r)
  BY <1>2, StandingIsSound, EndWindowsSound DEF ResumeByCode, Opens, Sound
<1>3. QED
  BY <1>1, <1>2, BootNewSound, ResumeSound, DecideSound, JournalSound, WrapSound, BootOffersSound
  DEF Next, AskClaim, Poll, RenewalReads, RenewalWrites, RenewalCut, Restart, Tick, vars

LEMMA OpensKeeps ==
    ASSUME TypeOK, NEW r \in Runs, Opens(r)
    PROVE  /\ run' \in [Runs -> RunRecords]
           /\ \A s \in Runs : run'[s].state = run[s].state /\ run'[s].began = run[s].began
           /\ \A s \in Runs \ {r} : run'[s] = run[s]
<1> DEFINE c == [run[r] EXCEPT !.window = "open", !.stuck = FALSE, !.key = TRUE]
<1>1. run[r] \in RunRecords /\ run' = [run EXCEPT ![r] = c]
  BY DEF TypeOK, Opens
<1>2. c \in RunRecords /\ c.state = run[r].state /\ c.began = run[r].began
  <2>1. TRUE \in BOOLEAN /\ FALSE \in BOOLEAN
    BY Zenon
  <2>2. QED
    BY <1>1, <2>1 DEF RunRecords
<1> HIDE DEF c
<1>3. QED
  BY <1>1, <1>2 DEF TypeOK

-----------------------------------------------------------------------------
(* The invariant.                                                          *)

LEMMA TypeStep == TypeOK /\ [Next]_vars => TypeOK'
<1> SUFFICES ASSUME TypeOK, [Next]_vars PROVE TypeOK'
  OBVIOUS
<1> USE SessionsAssumption DEF TypeOK, Time
<1>1. run' \in [Runs -> RunRecords]
  BY CardsMove, OpensKeeps DEF Sound, Grows
<1>2. now' \in Time
  <2>1. ASSUME NEW r \in Runs, BootNew(r) \/ Resume(r) \/ ResumeByCode(r) \/ Journal(r)
        PROVE  now' \in Time
    BY <2>1 DEF BootNew, Resume, ResumeByCode, Journal
  <2>2. ASSUME NEW r \in Runs, NEW word \in BOOLEAN, AskClaim(r, word)
        PROVE  now' \in Time
    BY <2>2 DEF AskClaim
  <2>3. ASSUME NEW r \in Runs, DecideClaim(r)
        PROVE  now' \in Time
    BY <2>3 DEF DecideClaim
  <2>4. ASSUME NEW r \in Runs, Poll(r)
        PROVE  now' \in Time
    BY <2>4 DEF Poll
  <2>5. ASSUME NEW r \in Runs, NEW again \in BOOLEAN, Wrap(r, again)
        PROVE  now' \in Time
    BY <2>5 DEF Wrap
  <2>6. CASE BootOffers
    BY <2>6 DEF BootOffers
  <2>7. ASSUME NEW m \in renewals, RenewalReads(m) \/ RenewalWrites(m) \/ RenewalCut(m)
        PROVE  now' \in Time
    BY <2>7 DEF RenewalReads, RenewalWrites, RenewalCut
  <2>8. CASE Restart \/ Tick \/ UNCHANGED vars
    BY <2>8 DEF Restart, Tick, vars
  <2>9. QED
    BY <2>1, <2>2, <2>3, <2>4, <2>5, <2>6, <2>7, <2>8 DEF Next
<1>3. role' \in [holder : Runs \cup {NoRun}, at : Time]
  <2>1. Vacant \in [holder : Runs \cup {NoRun}, at : Time]
    BY DEF Vacant
  <2>2. ASSUME NEW rs, Release(rs) PROVE role' \in [holder : Runs \cup {NoRun}, at : Time]
    BY <2>1, <2>2 DEF Release
  <2>3. ASSUME NEW r \in Runs, DecideClaim(r) PROVE role' \in [holder : Runs \cup {NoRun}, at : Time]
    <3>1. asks[r] # NoAsk => asks[r].at \in Time
      OBVIOUS
    <3>2. QED
      BY <2>2, <2>3, <3>1 DEF DecideClaim, Take
  <2>4. ASSUME NEW m \in renewals, RenewalWrites(m) PROVE role' \in [holder : Runs \cup {NoRun}, at : Time]
    BY <2>4 DEF RenewalWrites, Renewals
  <2>5. ASSUME NEW r \in Runs, BootNew(r) \/ Resume(r) \/ BootOffers
        PROVE  role' \in [holder : Runs \cup {NoRun}, at : Time]
    BY <2>2, <2>5 DEF BootNew, Resume, BootOffers, ReleaseSwept
  <2>6. ASSUME NEW r \in Runs, Journal(r) PROVE role' \in [holder : Runs \cup {NoRun}, at : Time]
    BY <2>6 DEF Journal
  <2>7. ASSUME NEW r \in Runs, NEW again \in BOOLEAN, Wrap(r, again)
        PROVE  role' \in [holder : Runs \cup {NoRun}, at : Time]
    <3>1. UNCHANGED role \/ Release({r})
      BY <2>7 DEF Wrap
    <3>2. QED
      BY <2>2, <3>1
  <2>8. BootOffers => \E r \in Runs : TRUE
    BY DEF BootOffers
  <2>9. QED
    BY <2>3, <2>4, <2>5, <2>6, <2>7, <2>8
    DEF Next, ResumeByCode, AskClaim, Poll, RenewalReads, RenewalCut, Restart, Tick, vars
<1>4. asks' \in [Runs -> [at : Time, word : BOOLEAN] \cup {NoAsk}]
  <2>1. ASSUME NEW r \in Runs, BootNew(r) \/ Resume(r) \/ ResumeByCode(r) \/ Journal(r)
        PROVE  asks' \in [Runs -> [at : Time, word : BOOLEAN] \cup {NoAsk}]
    BY <2>1 DEF BootNew, Resume, ResumeByCode, Journal
  <2>2. ASSUME NEW r \in Runs, NEW word \in BOOLEAN, AskClaim(r, word)
        PROVE  asks' \in [Runs -> [at : Time, word : BOOLEAN] \cup {NoAsk}]
    BY <2>2 DEF AskClaim
  <2>3. ASSUME NEW r \in Runs, DecideClaim(r)
        PROVE  asks' \in [Runs -> [at : Time, word : BOOLEAN] \cup {NoAsk}]
    BY <2>3 DEF DecideClaim
  <2>4. ASSUME NEW r \in Runs, Poll(r)
        PROVE  asks' \in [Runs -> [at : Time, word : BOOLEAN] \cup {NoAsk}]
    BY <2>4 DEF Poll
  <2>5. ASSUME NEW r \in Runs, NEW again \in BOOLEAN, Wrap(r, again)
        PROVE  asks' \in [Runs -> [at : Time, word : BOOLEAN] \cup {NoAsk}]
    BY <2>5 DEF Wrap
  <2>6. CASE BootOffers
    BY <2>6 DEF BootOffers
  <2>7. ASSUME NEW m \in renewals, RenewalReads(m) \/ RenewalWrites(m) \/ RenewalCut(m)
        PROVE  asks' \in [Runs -> [at : Time, word : BOOLEAN] \cup {NoAsk}]
    BY <2>7 DEF RenewalReads, RenewalWrites, RenewalCut
  <2>8. CASE Restart \/ Tick \/ UNCHANGED vars
    BY <2>8 DEF Restart, Tick, vars
  <2>9. QED
    BY <2>1, <2>2, <2>3, <2>4, <2>5, <2>6, <2>7, <2>8 DEF Next
<1>5. renewals' \subseteq Renewals
  <2>1. ASSUME NEW r \in Runs, BootNew(r) \/ Resume(r) \/ ResumeByCode(r) \/ Journal(r)
        PROVE  renewals' \subseteq Renewals
    BY <2>1 DEF BootNew, Resume, ResumeByCode, Journal
  <2>2. ASSUME NEW r \in Runs, NEW word \in BOOLEAN, AskClaim(r, word)
        PROVE  renewals' \subseteq Renewals
    BY <2>2 DEF AskClaim
  <2>3. ASSUME NEW r \in Runs, DecideClaim(r)
        PROVE  renewals' \subseteq Renewals
    BY <2>3 DEF DecideClaim
  <2>4. ASSUME NEW r \in Runs, Poll(r)
        PROVE  renewals' \subseteq Renewals
    <3>1. [by |-> r, at |-> now, stage |-> "asked"] \in Renewals
      BY DEF Renewals
    <3>2. QED
      BY <2>4, <3>1 DEF Poll
  <2>5. ASSUME NEW r \in Runs, NEW again \in BOOLEAN, Wrap(r, again)
        PROVE  renewals' \subseteq Renewals
    BY <2>5 DEF Wrap
  <2>6. CASE BootOffers
    BY <2>6 DEF BootOffers
  <2>7. ASSUME NEW m \in renewals, RenewalReads(m) \/ RenewalWrites(m) \/ RenewalCut(m)
        PROVE  renewals' \subseteq Renewals
    <3>1. [m EXCEPT !.stage = "due"] \in Renewals
      BY DEF Renewals
    <3>2. QED
      BY <2>7, <3>1 DEF RenewalReads, RenewalWrites, RenewalCut
  <2>8. CASE Restart \/ Tick \/ UNCHANGED vars
    BY <2>8 DEF Restart, Tick, vars
  <2>9. QED
    BY <2>1, <2>2, <2>3, <2>4, <2>5, <2>6, <2>7, <2>8 DEF Next
<1>6. QED
  BY <1>1, <1>2, <1>3, <1>4, <1>5

\* The moment a claim was asked for does not move, and the clock only grows.
LEMMA PastStep == TypeOK /\ AsksPast /\ [Next]_vars => AsksPast'
<1> SUFFICES ASSUME TypeOK, AsksPast, [Next]_vars, NEW r \in Runs, asks'[r] # NoAsk
             PROVE  asks'[r].at <= now'
  BY DEF AsksPast
<1>1. now \in Nat /\ (asks[r] # NoAsk => asks[r].at \in Nat /\ asks[r].at <= now)
  BY SessionsAssumption DEF TypeOK, Time, AsksPast
<1>2. now' = now \/ now' = now + 1
  BY DEF Next, BootNew, Resume, ResumeByCode, AskClaim, DecideClaim, Journal, Poll, Wrap,
         BootOffers, RenewalReads, RenewalWrites, RenewalCut, Restart, Tick, vars
<1>3. asks'[r] = asks[r] \/ asks'[r].at = now
  <2>1. ASSUME NEW q \in Runs, BootNew(q) \/ Resume(q) \/ ResumeByCode(q) \/ Journal(q)
        PROVE  asks'[r] = asks[r] \/ asks'[r].at = now
    BY <2>1 DEF BootNew, Resume, ResumeByCode, Journal
  <2>2. ASSUME NEW q \in Runs, NEW word \in BOOLEAN, AskClaim(q, word)
        PROVE  asks'[r] = asks[r] \/ asks'[r].at = now
    BY <2>2 DEF AskClaim, TypeOK
  <2>3. ASSUME NEW q \in Runs, DecideClaim(q)
        PROVE  asks'[r] = asks[r] \/ asks'[r].at = now
    BY <2>3 DEF DecideClaim, TypeOK
  <2>4. ASSUME NEW q \in Runs, Poll(q)
        PROVE  asks'[r] = asks[r] \/ asks'[r].at = now
    BY <2>4 DEF Poll
  <2>5. ASSUME NEW q \in Runs, NEW again \in BOOLEAN, Wrap(q, again)
        PROVE  asks'[r] = asks[r] \/ asks'[r].at = now
    BY <2>5 DEF Wrap
  <2>6. CASE BootOffers
    BY <2>6 DEF BootOffers
  <2>7. ASSUME NEW m \in renewals, RenewalReads(m) \/ RenewalWrites(m) \/ RenewalCut(m)
        PROVE  asks'[r] = asks[r] \/ asks'[r].at = now
    BY <2>7 DEF RenewalReads, RenewalWrites, RenewalCut
  <2>8. CASE Restart \/ Tick \/ UNCHANGED vars
    BY <2>8 DEF Restart, Tick, vars
  <2>9. QED
    BY <2>1, <2>2, <2>3, <2>4, <2>5, <2>6, <2>7, <2>8 DEF Next
<1>4. QED
  BY <1>1, <1>2, <1>3

\* A new card ends the windows before it, and no other step opens one.
LEMMA WindowStep == Inv /\ [Next]_vars => NewerRunEndsWindow'
<1> SUFFICES ASSUME Inv, [Next]_vars, NEW r \in Runs, run'[r].window = "open",
                    NEW s \in Runs \ {r}, run'[s].state \in Cards, run'[s].began > run'[r].began
             PROVE  run'[r].stuck
  BY DEF NewerRunEndsWindow, Newer, HasCard, Cards
<1>1. CASE Sound(run')
  <2>1. CASE WindowsEnded(run')
    BY <2>1 DEF WindowsEnded
  <2>2. CASE NoNewCard(run')
    <3>1. run[s].state \in Cards /\ run'[s].began = run[s].began
      BY <1>1, <2>2 DEF NoNewCard, Sound, Grows
    <3>2. run[r].window = "open" /\ run'[r].began = run[r].began /\ (run[r].stuck => run'[r].stuck)
      BY <1>1 DEF Sound, Grows
    <3>3. Newer(r)
      BY <3>1, <3>2 DEF Newer, HasCard, Cards
    <3>4. QED
      BY <3>2, <3>3 DEF Inv, NewerRunEndsWindow
  <2>3. QED
    BY <1>1, <2>1, <2>2 DEF Sound
<1>2. CASE \E o \in Runs : Opens(o)
  <2>1. PICK o \in Runs : Opens(o)
    BY <1>2
  <2>2. Newer(r)
    BY <2>1, OpensKeeps DEF Inv, Newer, HasCard, Cards
  <2>3. r # o
    BY <2>1, <2>2 DEF Opens
  <2>4. QED
    BY <2>1, <2>2, <2>3, OpensKeeps DEF Inv, NewerRunEndsWindow
<1>3. QED
  BY <1>1, <1>2, CardsMove DEF Inv

THEOREM Invariance == Spec => []Inv
<1>1. Init => Inv
  <2> SUFFICES ASSUME Init PROVE Inv
    OBVIOUS
  <2>1. Unborn \in RunRecords
    <3>1. FALSE \in BOOLEAN
      BY Zenon
    <3>2. QED
      BY <3>1, SessionsAssumption DEF Unborn, RunRecords, RunStates, Time
  <2>2. TypeOK
    BY <2>1, SessionsAssumption DEF Init, TypeOK, Vacant, Time
  <2>3. QED
    BY <2>2 DEF Init, Inv, AsksPast, NewerRunEndsWindow, Unborn
<1>2. Inv /\ [Next]_vars => Inv'
  BY TypeStep, PastStep, WindowStep DEF Inv
<1>3. QED
  BY <1>1, <1>2, PTL DEF Spec

\* The variables have their types in every reachable state.
THEOREM TypeCorrect == Spec => []TypeOK
<1>1. Inv => TypeOK
  BY DEF Inv
<1>2. QED
  BY <1>1, Invariance, PTL

\* A window that takes writes is the newest card's, or one the store refused
\* to clear, for any number of runs.
THEOREM NewestWindow == Spec => []NewerRunEndsWindow
<1>1. Inv => NewerRunEndsWindow
  BY DEF Inv
<1>2. QED
  BY <1>1, Invariance, PTL

\* A wrapped run stays wrapped: no sweep, takeover, resume or write of any
\* run moves it to another state.
THEOREM WrappedForGood == Spec => LastWord
<1>1. Inv /\ [Next]_vars =>
        [\A r \in Runs : run[r].state = "wrapped" => run'[r].state = "wrapped"]_vars
  BY CardsMove, OpensKeeps DEF Inv, Sound, Grows
<1>2. QED
  BY <1>1, Invariance, PTL DEF Spec, LastWord

-----------------------------------------------------------------------------
(* The lease.                                                              *)

\* A role changes hands only by a claim that is decided, a sweep or a wrap;
\* every other step leaves it to the run that holds it.
LEMMA RoleMoves ==
    ASSUME TypeOK, Next
    PROVE  \/ role'.holder = role.holder
           \/ \E r \in Runs : DecideClaim(r)
           \/ \E swept \in SUBSET StaleRuns : Release(swept)
           \/ \E r \in Runs : Release({r}) /\ run'[r].state = "wrapped"
<1>1. ASSUME NEW m \in renewals, RenewalWrites(m)
      PROVE  role'.holder = role.holder
  BY <1>1 DEF RenewalWrites
<1>2. ASSUME NEW r \in Runs, Journal(r)
      PROVE  role'.holder = role.holder
  BY <1>2 DEF Journal, RenewalDue
<1>3. ASSUME NEW r \in Runs, BootNew(r) \/ Resume(r) \/ BootOffers
      PROVE  \E swept \in SUBSET StaleRuns : Release(swept)
  <2>1. {} \in SUBSET StaleRuns
    OBVIOUS
  <2>2. QED
    BY <1>3, <2>1 DEF BootNew, Resume, BootOffers, ReleaseSwept
<1>4. ASSUME NEW r \in Runs, NEW again \in BOOLEAN, Wrap(r, again)
      PROVE  UNCHANGED role \/ (Release({r}) /\ run'[r].state = "wrapped")
  <2> DEFINE cards(made)  == Judged(r, made)
             told(made)   == Told(cards(made)[r], again)
             closed(made) == [NoWindow(told(made)) EXCEPT !.state = "wrapped", !.beat = 0]
  <2>1. CASE UNCHANGED role
    BY <2>1
  <2>2. CASE role' # role
    <3>1. PICK made \in CardsFor(r), window \in {"none", "offered"} :
            /\ run' = [cards(made) EXCEPT ![r] =
                          [closed(made) EXCEPT !.key = FALSE, !.window = window]]
            /\ Release({r})
      BY <1>4, <2>2 DEF Wrap
    <3>2. DOMAIN cards(made) = Runs /\ cards(made)[r] \in RunRecords
      BY <1>4, WriteFinds DEF Wrap, Sound, Grows
    <3>3. run'[r].state = "wrapped"
      BY <3>1, <3>2 DEF NoWindow, Told, RunRecords
    <3>4. QED
      BY <3>1, <3>3
  <2>3. QED
    BY <2>1, <2>2
<1>5. BootOffers => \E r \in Runs : TRUE
  BY DEF BootOffers
<1>6. QED
  BY <1>1, <1>2, <1>3, <1>4, <1>5
  DEF Next, ResumeByCode, AskClaim, Poll, RenewalReads, RenewalCut, Restart, Tick

\* A run becomes the holder only by a claim of its own, for any number of
\* renewals and claims in flight.
THEOREM ClaimsAlone == Spec => OnlyClaimsTake
<1>1. Inv /\ [Next]_vars =>
        [\A r \in Runs : role'.holder = r /\ role.holder # r =>
            asks[r] # NoAsk /\ asks'[r] = NoAsk]_vars
  <2> SUFFICES ASSUME Inv, Next, NEW r \in Runs, role'.holder = r, role.holder # r
               PROVE  asks[r] # NoAsk /\ asks'[r] = NoAsk
    OBVIOUS
  <2>1. TypeOK
    BY DEF Inv
  <2>2. ASSUME NEW rs PROVE ~Release(rs)
    BY SessionsAssumption DEF Release, Vacant
  <2>3. PICK q \in Runs : DecideClaim(q)
    BY <2>1, <2>2, RoleMoves
  <2>4. q = r
    BY <2>2, <2>3 DEF DecideClaim, Take
  <2>5. QED
    BY <2>1, <2>3, <2>4 DEF DecideClaim, TypeOK
<1>2. QED
  BY <1>1, Invariance, PTL DEF Spec, OnlyClaimsTake

\* An active run loses a fresh lease only by its own wrap, at the operator's
\* word, or to the sweep of a boot that found it without a beat.
THEOREM FreshLeaseHolds == Spec => LeaseLostForCause
<1>1. Inv /\ [Next]_vars =>
        [\A h \in Runs : LosesFreshLease(h) =>
            run'[h].state = "wrapped" \/ AtTheWord \/ Stale(h)]_vars
  <2> SUFFICES ASSUME Inv, Next, NEW h \in Runs, LosesFreshLease(h)
               PROVE  run'[h].state = "wrapped" \/ AtTheWord \/ Stale(h)
    OBVIOUS
  <2>1. TypeOK /\ AsksPast
    BY DEF Inv
  <2>2. role.holder = h /\ role'.holder # h /\ run[h].state = "active" /\ now < role.at + Lease
    BY DEF LosesFreshLease
  <2>3. ASSUME NEW rs, Release(rs) PROVE h \in rs
    BY <2>2, <2>3 DEF Release
  <2>4. CASE \E r \in Runs : DecideClaim(r)
    <3>1. PICK r \in Runs : DecideClaim(r)
      BY <2>4
    <3>2. asks[r] # NoAsk /\ asks'[r] = NoAsk
      BY <2>1, <3>1 DEF DecideClaim, TypeOK
    <3>3. asks[r].at <= now /\ asks[r].at \in Nat /\ now \in Nat /\ role.at \in Nat
      BY <2>1, <3>2, SessionsAssumption DEF AsksPast, TypeOK, Time
    <3>4. CASE MayTake(r, asks[r].at) /\ Take(r, run)
      <4>1. role'.holder = r
        BY <3>4 DEF Take
      <4>2. asks[r].at >= role.at + Lease
        BY <2>2, <3>4, <4>1, SessionsAssumption DEF MayTake
      <4>3. QED
        BY <2>2, <3>3, <4>2, SessionsAssumption
    <3>5. CASE Yields(h, asks[r].word)
      BY <2>2, <3>2, <3>5 DEF Yields, AtTheWord
    <3>6. QED
      BY <2>2, <3>1, <3>4, <3>5 DEF DecideClaim
  <2>5. CASE \E swept \in SUBSET StaleRuns : Release(swept)
    BY <2>3, <2>5 DEF StaleRuns
  <2>6. CASE \E r \in Runs : Release({r}) /\ run'[r].state = "wrapped"
    BY <2>3, <2>6
  <2>7. QED
    BY <2>1, <2>2, <2>4, <2>5, <2>6, RoleMoves
<1>2. QED
  BY <1>1, Invariance, PTL DEF Spec, LeaseLostForCause
=============================================================================

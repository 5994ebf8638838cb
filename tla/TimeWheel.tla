----------------------------- MODULE TimeWheel -----------------------------
(***************************************************************************)
(* The hierarchical time wheel of example-time-wheel: TVN_NUM levels of    *)
(* TVN_SIZE slots, each a list of timers.  Tick advances the clock, fires  *)
(* what is due in the current slot of level 0 and, when the index of a     *)
(* level wraps, cascades a slot of the next level down.                    *)
(*                                                                         *)
(* Tick is one call, but it runs the callbacks of the timers it fires, and *)
(* a callback may call AddTimer; so a Tick is the steps Scan, then one     *)
(* Fire per timer with the callback's calls after it, then Advance, then   *)
(* one Cascade per level.  Calls from outside come between Ticks only.     *)
(* RemoveTimer has no action: for a timer it changes nothing (its test for *)
(* null is inverted), so a timer leaves the wheel by firing only.          *)
(***************************************************************************)
EXTENDS Integers, Sequences, FiniteSets, SequencesExt

CONSTANTS Timers,     \* the Timer objects of the callers
          None,       \* "no timer"
          TVN_SIZE,   \* the number of slots of a level
          TVN_NUM,    \* the number of levels
          Deltas,     \* bound: how far ahead of Now() a timer is set
          MaxAdds,    \* bound: how often a caller adds the same Timer
          MaxNow      \* bound: how far the clock runs

ASSUME WheelAssumption ==
  /\ TVN_SIZE \in Nat \ {0, 1} /\ TVN_NUM \in Nat \ {0, 1}
  /\ Deltas \subseteq Nat /\ MaxAdds \in Nat /\ MaxNow \in Nat
  /\ None \notin Timers

VARIABLES
  now,      \* now_
  idx,      \* tv_idx_
  tv,       \* tv_: level -> slot -> list of timers
  expires,  \* Timer::expires
  active,   \* Timer::active
  tick,     \* where Tick is: "done", "fire" or "cascade"
  expired,  \* Tick's local list of timers still to fire
  running,  \* the timer whose callback is running
  lev,      \* the argument of the Cascade call that is next
  since,    \* history: Now() when the timer was first added
  entry,    \* history: the level it was first put into
  adds,     \* history: the AddTimer calls that accepted it
  fired     \* history: the calls of its callback

clock   == <<now, idx>>
ticking == <<tick, expired, running, lev>>
timer   == <<expires, active>>
history == <<since, entry, adds, fired>>
vars    == <<clock, tv, ticking, timer, history>>

Levels == 0 .. TVN_NUM - 1
Slots  == 0 .. TVN_SIZE - 1

\* The ticks that a slot of level l stands for, TVN_SIZE^l: 1 << (TVN_BITS * l).
Span[l \in 0 .. TVN_NUM] == IF l = 0 THEN 1 ELSE TVN_SIZE * Span[l - 1]

Init ==
  /\ now = 0
  /\ idx = [l \in Levels |-> 0]
  /\ tv = [l \in Levels |-> [s \in Slots |-> <<>>]]
  /\ expires = [t \in Timers |-> 0]
  /\ active = [t \in Timers |-> FALSE]
  /\ tick = "done" /\ expired = <<>> /\ running = None /\ lev = 0
  /\ since = [t \in Timers |-> 0]
  /\ entry = [t \in Timers |-> 0]
  /\ adds = [t \in Timers |-> 0]
  /\ fired = [t \in Timers |-> 0]

-----------------------------------------------------------------------------
(* Where a timer goes *)

GetLevel(delta) ==
  CHOOSE l \in Levels :
    /\ delta < Span[l + 1] \/ l = TVN_NUM - 1
    /\ \A k \in 0 .. l - 1 : delta >= Span[k + 1]

Delta(t) == IF expires[t] <= now THEN 0 ELSE expires[t] - now

Slot_NotAdjusted(delta) == (delta \div Span[GetLevel(delta)]) % TVN_SIZE

\* adjusted_delta is an int and may wrap for the highest level; the bits that
\* the shift and the mask keep are the same.
Slot(delta) ==
  LET l == GetLevel(delta)
  IN  IF l = 0 THEN delta % TVN_SIZE
      ELSE ((delta - Span[l]) \div Span[l]) % TVN_SIZE

\* AddTimer returns false for the others.
Accepted(t) == active[t] /\ Delta(t) < Span[TVN_NUM]

\* The elements of list that are in set, in order.
Among(list, set) ==
  LET kept[i \in 0 .. Len(list)] ==
        IF i = 0 THEN <<>>
        ELSE IF list[i] \in set THEN Append(kept[i - 1], list[i])
        ELSE kept[i - 1]
  IN  kept[Len(list)]

\* The timers that AddTimer puts into slot s of level l.
GoingTo(l, s) ==
  {t \in Timers : /\ Accepted(t)
                  /\ GetLevel(Delta(t)) = l /\ Slot(Delta(t)) = s}

\* tv after AddTimer was called for each timer of list.
AddAll(wheel, list) ==
  [l \in Levels |-> [s \in Slots |-> wheel[l][s] \o Among(list, GoingTo(l, s))]]

-----------------------------------------------------------------------------
(* Callers, outside Tick or in a callback *)

Calling == tick = "done" \/ running # None

InWheel(t) == \E l \in Levels, s \in Slots : t \in ToSet(tv[l][s])

\* A caller constructs a Timer, maybe where one was that has fired; it must
\* not while the wheel or Tick still refers to it.
New(t) ==
  /\ Calling /\ ~InWheel(t) /\ t \notin ToSet(expired)
  /\ \E d \in Deltas : expires' = [expires EXCEPT ![t] = now + d]
  /\ active' = [active EXCEPT ![t] = TRUE]
  /\ since' = [since EXCEPT ![t] = 0]
  /\ entry' = [entry EXCEPT ![t] = 0]
  /\ adds' = [adds EXCEPT ![t] = 0]
  /\ fired' = [fired EXCEPT ![t] = 0]
  /\ UNCHANGED <<clock, tv, ticking>>

AddTimer(t) ==
  /\ Calling /\ Accepted(t) /\ adds[t] < MaxAdds
  /\ tv' = AddAll(tv, <<t>>)
  /\ adds' = [adds EXCEPT ![t] = @ + 1]
  /\ IF adds[t] = 0
     THEN /\ since' = [since EXCEPT ![t] = now]
          /\ entry' = [entry EXCEPT ![t] = GetLevel(Delta(t))]
     ELSE UNCHANGED <<since, entry>>
  /\ UNCHANGED <<clock, ticking, timer, fired>>

-----------------------------------------------------------------------------
(* Tick *)

Due_OneTickEarly(t) == active[t] /\ expires[t] <= now' + 1
Due(t) == active[t] /\ expires[t] <= now'

Deactivated(list) == [t \in Timers |-> active[t] /\ t \notin ToSet(list)]

\* The timers of a slot that are due, in order.  A timer that occurs twice is
\* inactive by the time the scan meets it again.
DueIn(slot) ==
  LET first == Among([i \in 1 .. Len(slot) |-> i],
        {i \in 1 .. Len(slot) :
           Due(slot[i]) /\ \A j \in 1 .. i - 1 : slot[j] # slot[i]})
  IN  [k \in 1 .. Len(first) |-> slot[first[k]]]

Kept == {t \in Timers : active[t] /\ ~Due(t)}

\* The scan of the current slot takes the inactive and the due timers off.
Scan ==
  /\ tick = "done" /\ now < MaxNow
  /\ now' = now + 1
  /\ tick' = "fire"
  /\ expired' = DueIn(tv[0][idx[0]])
  /\ active' = Deactivated(expired')
  /\ tv' = [tv EXCEPT ![0][idx[0]] = Among(@, Kept)]
  /\ UNCHANGED <<idx, running, lev, expires, history>>

Fire ==
  /\ tick = "fire" /\ expired # <<>>
  /\ running' = Head(expired)
  /\ expired' = Tail(expired)
  /\ fired' = [fired EXCEPT ![Head(expired)] = @ + 1]
  /\ UNCHANGED <<clock, tv, tick, lev, timer, since, entry, adds>>

\* The index after i, and whether that of level l has wrapped with one to carry
\* to.
Successor(i) == (i + 1) % TVN_SIZE

Wrapped_OldIndex(l) == idx[l] = 0 /\ l + 1 < TVN_NUM
Wrapped_LowestOnly(l) == idx'[l] = 0 /\ l = 0
Wrapped(l) == idx'[l] = 0 /\ l + 1 < TVN_NUM

\* The index of level l moves on; when it wraps, level l + 1 cascades.
MoveOn(l) ==
  /\ idx' = [idx EXCEPT ![l] = Successor(@)]
  /\ tick' = IF Wrapped(l) THEN "cascade" ELSE "done"
  /\ lev' = IF Wrapped(l) THEN l + 1 ELSE 0

Advance ==
  /\ tick = "fire" /\ expired = <<>>
  /\ running' = None
  /\ MoveOn(0)
  /\ UNCHANGED <<now, tv, expired, timer, history>>

Cascade_ClearsLast ==
  /\ tick = "cascade"
  /\ tv' = [AddAll(tv, tv[lev][idx[lev]]) EXCEPT ![lev][idx[lev]] = <<>>]
  /\ MoveOn(lev)
  /\ UNCHANGED <<now, expired, running, timer, history>>

Cascade ==
  /\ tick = "cascade"
  /\ tv' = AddAll([tv EXCEPT ![lev][idx[lev]] = <<>>], tv[lev][idx[lev]])
  /\ MoveOn(lev)
  /\ UNCHANGED <<now, expired, running, timer, history>>

-----------------------------------------------------------------------------
Ticking == Scan \/ Fire \/ Advance \/ Cascade

Next == Ticking \/ \E t \in Timers : New(t) \/ AddTimer(t)

Spec == Init /\ [][Next]_vars

-----------------------------------------------------------------------------
(* Properties *)

TypeOK ==
  /\ now \in Nat /\ idx \in [Levels -> Slots]
  /\ tv \in [Levels -> [Slots -> Seq(Timers)]]
  /\ expires \in [Timers -> Nat] /\ active \in [Timers -> BOOLEAN]
  /\ tick \in {"done", "fire", "cascade"} /\ expired \in Seq(Timers)
  /\ running \in Timers \cup {None} /\ lev \in Levels
  /\ since \in [Timers -> Nat] /\ entry \in [Timers -> Levels]
  /\ adds \in [Timers -> Nat] /\ fired \in [Timers -> Nat]

\* The places where the wheel refers to t.
Entries(t) ==
  UNION {{<<l, s, i>> : i \in {j \in DOMAIN tv[l][s] : tv[l][s][j] = t}} :
           l \in Levels, s \in Slots}

\* No timer is lost or duplicated on its way down the levels: one that has
\* not fired is in the wheel once for every AddTimer that accepted it.  And
\* each fires at most once, also when it was added twice and sits in two slots.
EachTimerOnce ==
  \A t \in Timers :
    /\ active[t] => Cardinality(Entries(t)) = adds[t] /\ fired[t] = 0
    /\ fired[t] <= 1

\* The indices are the digits of the clock in base TVN_SIZE, except that the
\* levels a Tick in progress has still to reach show the tick before.
ClockDigits ==
  \A l \in Levels :
    LET stale == tick = "fire" \/ (tick = "cascade" /\ l >= lev)
        time  == IF stale THEN now - 1 ELSE now
    IN  idx[l] = (time \div Span[l]) % TVN_SIZE

\* Ticks since the timer could have fired at the earliest.
LateBy(t) == now - (IF expires[t] > since[t] THEN expires[t] ELSE since[t])

Pending(t) == active[t] /\ adds[t] > 0

\* A slot is chosen from the time left, not from the current index, so a timer
\* can be passed over; but it is late by less than a rotation of the level it
\* was put into, the part of it that the slots ahead of it do not take.
NeverOverdue ==
  \A t \in Timers : Pending(t) =>
    LateBy(t) <= Span[entry[t] + 1] - Span[entry[t]]

\* A callback runs in a Tick after its timer expired and later than the Tick
\* that added it: a callback that adds due timers does not prolong its Tick.
FiresWhenDue ==
  [][\A t \in Timers : fired'[t] > fired[t] =>
        expires[t] <= now /\ since[t] < now]_vars

\* A timer added when its level and those below begin a rotation, like those
\* of the test, is never passed over: it fires at most one tick late.
AlignedIsPrompt ==
  [][\A t \in Timers :
        fired'[t] > fired[t] /\ since[t] % Span[entry[t] + 1] = 0
          => LateBy(t) <= 1]_vars

\* The test's comments: "fires after 5 ms", where a Tick is a millisecond.
FiresOnTime ==
  [][\A t \in Timers : fired'[t] > fired[t] => now = expires[t]]_vars
=============================================================================

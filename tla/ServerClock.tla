---------------------------- MODULE ServerClock ----------------------------
(***************************************************************************)
(* The browser's estimate of the server's clock (useServerClock.js), and   *)
(* the phase of a global sync that it decides (sync.js, App.jsx).          *)
(*                                                                         *)
(* Real time is finer than a millisecond: it counts grains, of which       *)
(* PerMilli make a millisecond, and both clocks are read by truncation.    *)
(* The server's clock shows real time; the browser's is skew grains ahead, *)
(* and may be set while exchanges are under way.  Offsets and bounds on    *)
(* errors are doubled, where the code divides by two.                      *)
(*                                                                         *)
(* A page looks at the browser's clock when useNow ticks, and keeps the    *)
(* reading until it looks again, at most LookInterval later.               *)
(***************************************************************************)
EXTENDS Integers, Sequences

CONSTANTS
    PerMilli,       \* grains of real time in a millisecond
    MaxSamples,     \* MAX_SAMPLES
    MaxRtt,         \* the longest round trip that is a measurement, 10_000
    Exchanges,      \* requests for the time, and for the state, and PINGs
    Skews,          \* what the browser's clock may be set to
    Syncs,          \* that the page may have to show: startAt and endAt, in grains
    LookInterval,   \* TICK_MILLIS, or what a throttled tab is allowed, in grains
    MaxTime,        \* bound on real time
    MaxSettings     \* bound on the times the browser's clock is set

ASSUME GrainsAssumption == PerMilli \in Nat \ {0} /\ Skews \subseteq Int /\ Skews # {}
ASSUME LimitsAssumption == MaxSamples \in Nat \ {0} /\ MaxRtt \in Nat /\ MaxTime \in Nat
ASSUME SyncsAssumption == Syncs \subseteq [startAt : Int, endAt : Int]
ASSUME LookAssumption == LookInterval \in Nat \ {0}

VARIABLES
    time,      \* real time
    skew,      \* how far the browser's clock is ahead
    settings,  \* how often it was set
    exchange,  \* the exchanges under way; astride: the clock was set meanwhile
    samples,   \* the measurements kept, oldest first
    clock,     \* what useServerClock returns
    look,      \* now of useNow; history: when it was read, and whether the clock was set since
    streak     \* history: how many of the latest measurements agree with skew

vars == <<time, skew, settings, exchange, samples, clock, look, streak>>

Sample == [offset2 : Int, rtt : 0 .. MaxRtt]
Exchange == [pc : {"idle", "asked", "answered"}, sentAt : Int, serverTime : Int, astride : BOOLEAN]
Idle == [pc |-> "idle", sentAt |-> 0, serverTime |-> 0, astride |-> FALSE]

TypeOK ==
    /\ time \in 0 .. MaxTime /\ skew \in Skews /\ settings \in Nat
    /\ exchange \in [Exchanges -> Exchange]
    /\ samples \in Seq(Sample) /\ Len(samples) <= MaxSamples
    /\ clock \in [offsetMillis : Int, rttMillis : 0 .. MaxRtt, synced : BOOLEAN]
    /\ clock.synced <=> samples # <<>>
    /\ look \in [now : Int, at : 0 .. time, astride : BOOLEAN]
    /\ streak \in 0 .. MaxSamples

ServerMillis == time \div PerMilli
BrowserMillis == (time + skew) \div PerMilli

Reading == [now |-> BrowserMillis, at |-> time, astride |-> FALSE]

Init ==
    /\ time = 0 /\ skew \in Skews /\ settings = 0
    /\ exchange = [x \in Exchanges |-> Idle]
    /\ samples = <<>>
    /\ clock = [offsetMillis |-> 0, rttMillis |-> 0, synced |-> FALSE]
    /\ look = Reading
    /\ streak = 0

-----------------------------------------------------------------------------
(* Measurements.                                                           *)

\* A request, or a PING with the browser's time, is sent.
Send(x) ==
    /\ exchange[x].pc = "idle"
    /\ exchange' = [exchange EXCEPT ![x] = [pc |-> "asked", sentAt |-> BrowserMillis,
                                            serverTime |-> 0, astride |-> FALSE]]
    /\ UNCHANGED <<time, skew, settings, samples, clock, look, streak>>

\* The server stamps its answer.
Reply(x) ==
    /\ exchange[x].pc = "asked"
    /\ exchange' = [exchange EXCEPT ![x].pc = "answered", ![x].serverTime = ServerMillis]
    /\ UNCHANGED <<time, skew, settings, samples, clock, look, streak>>

\* samples.current.reduce((a, b) => (b.rtt < a.rtt ? b : a)): the first of
\* the samples with the shortest round trip.
IsBest(kept, i) ==
    /\ \A j \in DOMAIN kept : kept[i].rtt <= kept[j].rtt
    /\ \A j \in DOMAIN kept : kept[j].rtt = kept[i].rtt => i <= j

\* Mutant: the sample with the longest round trip wins.
WorstOf(kept) == kept[CHOOSE i \in DOMAIN kept : \A j \in DOMAIN kept : kept[j].rtt <= kept[i].rtt]

Best(kept) == kept[CHOOSE i \in DOMAIN kept : IsBest(kept, i)]

\* [...samples, sample].slice(-MAX_SAMPLES)
Keep(sample) ==
    LET all == Append(samples, sample)
    IN IF Len(all) > MaxSamples THEN Tail(all) ELSE all

\* Math.round of half of it.
Rounded(twice) == (twice + 1) \div 2

RecordSample(measured) ==
    /\ samples' = Keep(measured)
    /\ clock' = [offsetMillis |-> Rounded(Best(samples').offset2), rttMillis |-> Best(samples').rtt,
                 synced |-> TRUE]

Measured(x) == [offset2 |-> 2 * exchange[x].serverTime - exchange[x].sentAt - BrowserMillis,
                rtt |-> BrowserMillis - exchange[x].sentAt]

Receive(x) ==
    /\ exchange[x].pc = "answered"
    /\ exchange' = [exchange EXCEPT ![x] = Idle]
    /\ IF Measured(x).rtt \in 0 .. MaxRtt
       THEN /\ RecordSample(Measured(x))
            /\ streak' = IF exchange[x].astride THEN 0
                         ELSE IF streak < MaxSamples THEN streak + 1 ELSE streak
       ELSE UNCHANGED <<samples, clock, streak>>
    /\ UNCHANGED <<time, skew, settings, look>>

\* The request fails or is aborted, or the socket closes.
Lose(x) ==
    /\ exchange[x].pc # "idle"
    /\ exchange' = [exchange EXCEPT ![x] = Idle]
    /\ UNCHANGED <<time, skew, settings, samples, clock, look, streak>>

-----------------------------------------------------------------------------
(* Time, the browser's clock, and the page's looks at it.                  *)

Tick ==
    /\ time < MaxTime /\ time - look.at < LookInterval
    /\ time' = time + 1
    /\ UNCHANGED <<skew, settings, exchange, samples, clock, look, streak>>

\* setNow(Date.now()), by the interval or because the tab is visible again.
Look ==
    /\ look' = Reading
    /\ UNCHANGED <<time, skew, settings, exchange, samples, clock, streak>>

SetClock ==
    /\ settings < MaxSettings
    /\ \E to \in Skews \ {skew} : skew' = to
    /\ settings' = settings + 1
    /\ exchange' = [x \in Exchanges |-> [exchange[x] EXCEPT !.astride = TRUE]]
    /\ look' = [look EXCEPT !.astride = TRUE]
    /\ streak' = 0
    /\ UNCHANGED <<time, samples, clock>>

Next ==
    \/ \E x \in Exchanges : Send(x) \/ Reply(x) \/ Receive(x) \/ Lose(x)
    \/ Tick \/ Look \/ SetClock

Spec == Init /\ [][Next]_vars

-----------------------------------------------------------------------------
(* What a page shows of the sync: the last look, with the latest offset.   *)

\* Mutant: the offset is taken the other way.
ToBrowserMillis(clientMillis, offsetMillis) == clientMillis - offsetMillis

ToServerMillis(clientMillis, offsetMillis) == clientMillis + offsetMillis

ServerNowMillis == ToServerMillis(look.now, clock.offsetMillis)

\* The instants of a sync are read as whole milliseconds.
ResolveSyncPhase(event, serverNowMillis) ==
    IF serverNowMillis < event.startAt \div PerMilli THEN "pending"
    ELSE IF serverNowMillis >= event.endAt \div PerMilli THEN "ended"
    ELSE "active"

OnScreen(event) == ResolveSyncPhase(event, ServerNowMillis) = "active"

-----------------------------------------------------------------------------
(* Properties.                                                             *)

Within(error, bound) == -bound <= error /\ error <= bound

\* Every measurement that is kept was made by the clock the browser now has.
Settled == clock.synced /\ streak >= Len(samples)

\* The estimate is off by at most half of the shortest of the round trips that
\* are kept, and the truncation of the readings, a millisecond and a half; and
\* MAX_SAMPLES measurements after the browser's clock was set, it is so again:
\* a quick exchange from before does not outweigh them for ever.
EstimateWithinBound ==
    Settled => \A i \in DOMAIN samples :
                   Within(2 * (PerMilli * clock.offsetMillis + skew), PerMilli * (samples[i].rtt + 3))

\* A page puts a sync on the screen, and takes it off, within half of its best
\* round trip and two milliseconds and a half of the server's instants when it
\* looks, however far off the browser's own clock is.  Between two ticks of
\* useNow it keeps the last reading, so that both may come up to LookInterval
\* later, and neither comes earlier for it.  Nothing is said of a reading from
\* before the clock was set, which the next tick replaces.
Tolerance2 == PerMilli * (clock.rttMillis + 5)

OverrideOnTime ==
    Settled /\ ~ look.astride =>
        \A event \in Syncs :
            /\ OnScreen(event) =>
                   /\ 2 * event.startAt - Tolerance2 <= 2 * time
                   /\ 2 * time < 2 * (event.endAt + LookInterval) + Tolerance2
            /\ /\ 2 * (event.startAt + LookInterval) + Tolerance2 <= 2 * time
               /\ 2 * time < 2 * event.endAt - Tolerance2
               => OnScreen(event)

=============================================================================

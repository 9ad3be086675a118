------------------------- MODULE ServerClockProofs -------------------------
(***************************************************************************)
(* Proofs about ServerClock, for any grain, limits and clocks.             *)
(***************************************************************************)
EXTENDS ServerClock, TLAPS, WellFoundedInduction

\* A set of natural numbers has a least element.
LEMMA LeastNatural ==
    ASSUME NEW T \in SUBSET Nat, T # {}
    PROVE  \E n \in T : \A m \in T : n <= m
<1> DEFINE R == OpToRel(<, Nat)
<1>1. IsWellFoundedOn(R, Nat)
    BY NatLessThanWellFounded
<1>2. PICK n \in T : \A m \in T : ~ (<<m, n>> \in R)
    <2> HIDE DEF R
    <2> QED BY <1>1, WFMin
<1>3. \A m \in T : m < n => <<m, n>> \in R
    BY DEF OpToRel
<1> HIDE DEF R
<1>4. \A m \in T : ~ (m < n)
    BY <1>2, <1>3
<1>5. \A m \in T : m \in Nat /\ n \in Nat
    OBVIOUS
<1>6. \A m \in T : n <= m
    BY <1>4, <1>5
<1> QED BY <1>6

\* The code takes the first of the samples with the shortest round trip: there
\* is one.
LEMMA BestExists ==
    ASSUME NEW kept \in Seq(Sample), kept # <<>>
    PROVE  \E i \in DOMAIN kept : IsBest(kept, i)
<1> DEFINE Rtts == {kept[i].rtt : i \in DOMAIN kept}
<1>1. DOMAIN kept = 1 .. Len(kept) /\ Len(kept) \in Nat \ {0}
    OBVIOUS
<1>2. \A i \in 1 .. Len(kept) : kept[i] \in Sample
    BY <1>1
<1>3. \A i \in 1 .. Len(kept) : kept[i].rtt \in Nat
    BY <1>2, LimitsAssumption DEF Sample
<1>4. Rtts \in SUBSET Nat /\ Rtts # {}
    BY <1>1, <1>3
<1>5. PICK least \in Rtts : \A other \in Rtts : least <= other
    <2> HIDE DEF Rtts
    <2> QED BY <1>4, LeastNatural
<1> DEFINE Shortest == {i \in DOMAIN kept : kept[i].rtt = least}
<1>6. Shortest \in SUBSET Nat /\ Shortest # {}
    BY <1>1
<1>7. PICK i \in Shortest : \A j \in Shortest : i <= j
    <2> HIDE DEF Shortest
    <2> QED BY <1>6, LeastNatural
<1>8. \A j \in DOMAIN kept : kept[j].rtt \in Rtts
    OBVIOUS
<1>9. IsBest(kept, i)
    BY <1>5, <1>7, <1>8 DEF IsBest
<1> QED BY <1>7, <1>9

\* Integer division, as the inequalities that define it.
LEMMA Floor ==
    ASSUME NEW a \in Int
    PROVE  /\ a \div PerMilli \in Int
           /\ PerMilli * (a \div PerMilli) <= a
           /\ a < PerMilli * (a \div PerMilli) + PerMilli
<1>1. PerMilli \in Int /\ PerMilli > 0
    BY GrainsAssumption
<1> QED BY <1>1, Z3

\* A measurement brackets the server's clock: asked at t1, stamped at t2 and
\* received at t3, by a browser whose clock is k ahead.
LEMMA Bracket ==
    ASSUME NEW k \in Int, NEW t1 \in Int, NEW t2 \in Int, NEW t3 \in Int, t1 <= t2, t2 <= t3
    PROVE  LET sent == (t1 + k) \div PerMilli
               stamped == t2 \div PerMilli
               received == (t3 + k) \div PerMilli
           IN  Within(PerMilli * (2 * stamped - sent - received) + 2 * k,
                      PerMilli * (received - sent + 2))
<1> DEFINE sent == (t1 + k) \div PerMilli
           stamped == t2 \div PerMilli
           received == (t3 + k) \div PerMilli
<1>1. PerMilli \in Int /\ sent \in Int /\ stamped \in Int /\ received \in Int
    BY Floor, GrainsAssumption
<1>2. /\ PerMilli * sent <= t1 + k /\ t1 + k < PerMilli * sent + PerMilli
      /\ PerMilli * received <= t3 + k /\ t3 + k < PerMilli * received + PerMilli
    BY Floor
<1>3. PerMilli * stamped <= t2 /\ t2 < PerMilli * stamped + PerMilli
    BY Floor
<1> HIDE DEF sent, stamped, received
<1> DEFINE a == PerMilli * sent
           b == PerMilli * stamped
           c == PerMilli * received
<1>4. a \in Int /\ b \in Int /\ c \in Int
    BY <1>1
<1>5. /\ a <= t1 + k /\ t1 + k < a + PerMilli
      /\ c <= t3 + k /\ t3 + k < c + PerMilli
      /\ b <= t2 /\ t2 < b + PerMilli
    BY <1>2, <1>3
<1>6. /\ PerMilli * (2 * stamped - sent - received) = 2 * b - a - c
      /\ PerMilli * (received - sent + 2) = c - a + 2 * PerMilli
    BY <1>1
<1>7. Within(2 * b - a - c + 2 * k, c - a + 2 * PerMilli)
    <2> HIDE DEF a, b, c
    <2> QED BY <1>1, <1>4, <1>5 DEF Within
<1> QED BY <1>6, <1>7 DEF sent, stamped, received

-----------------------------------------------------------------------------
(* The invariant.                                                          *)

\* An exchange during which the clock was not set read it at earlier instants.
ExchangesBracket ==
    \A x \in Exchanges : ~ exchange[x].astride =>
        /\ exchange[x].pc = "asked" =>
               \E t1 \in 0 .. time : exchange[x].sentAt = (t1 + skew) \div PerMilli
        /\ exchange[x].pc = "answered" =>
               \E t1 \in 0 .. time, t2 \in 0 .. time :
                   /\ t1 <= t2
                   /\ exchange[x].sentAt = (t1 + skew) \div PerMilli
                   /\ exchange[x].serverTime = t2 \div PerMilli

Brackets(sample) == Within(PerMilli * sample.offset2 + 2 * skew, PerMilli * (sample.rtt + 2))

\* The latest measurements, streak of them, bracket the server's clock.
StreakBrackets ==
    \A i \in DOMAIN samples : i > Len(samples) - streak => Brackets(samples[i])

\* The estimate is that of a best sample.
ClockIsBest ==
    samples # <<>> =>
        \E i \in DOMAIN samples : /\ IsBest(samples, i)
                                  /\ clock.offsetMillis = Rounded(samples[i].offset2)
                                  /\ clock.rttMillis = samples[i].rtt

\* The page looked not long ago, and read the clock that the browser still has.
LookIsRecent ==
    /\ time - look.at <= LookInterval
    /\ ~ look.astride => look.now = (look.at + skew) \div PerMilli

IInv == TypeOK /\ ExchangesBracket /\ StreakBrackets /\ ClockIsBest /\ LookIsRecent

LEMMA Initially == Init => IInv
<1> SUFFICES ASSUME Init PROVE IInv
    OBVIOUS
<1>1. TypeOK
    <2>1. time + skew \in Int /\ time = 0
        BY GrainsAssumption DEF Init
    <2>2. look \in [now : Int, at : 0 .. time, astride : BOOLEAN]
        BY <2>1, Floor DEF Init, Reading, BrowserMillis
    <2> QED BY <2>2, LimitsAssumption DEF Init, TypeOK, Idle, Exchange
<1>2. ExchangesBracket
    BY DEF Init, ExchangesBracket, Idle
<1>3. StreakBrackets /\ ClockIsBest
    BY DEF Init, StreakBrackets, ClockIsBest
<1>4. LookIsRecent
    BY LookAssumption DEF Init, LookIsRecent, Reading, BrowserMillis
<1> QED BY <1>1, <1>2, <1>3, <1>4 DEF IInv

\* Readings of both clocks are integers.
LEMMA ReadingsTyped == TypeOK => ServerMillis \in Int /\ BrowserMillis \in Int
<1> SUFFICES ASSUME TypeOK PROVE ServerMillis \in Int /\ BrowserMillis \in Int
    OBVIOUS
<1>1. time \in Int /\ skew \in Int /\ time + skew \in Int
    BY GrainsAssumption, LimitsAssumption DEF TypeOK
<1> QED BY <1>1, Floor DEF ServerMillis, BrowserMillis

\* Sending, and losing, an exchange.
LEMMA SendPreserves ==
    ASSUME IInv, NEW x \in Exchanges, Send(x)
    PROVE  IInv'
<1>1. TypeOK'
    <2>1. exchange' \in [Exchanges -> Exchange]
        BY ReadingsTyped DEF IInv, TypeOK, Send, Exchange
    <2> QED BY <2>1 DEF IInv, TypeOK, Send
<1>2. ExchangesBracket'
    <2> SUFFICES ASSUME NEW y \in Exchanges, ~ exchange'[y].astride
                 PROVE  /\ exchange'[y].pc = "asked" =>
                               \E t1 \in 0 .. time : exchange'[y].sentAt = (t1 + skew) \div PerMilli
                        /\ exchange'[y].pc = "answered" =>
                               \E t1 \in 0 .. time, t2 \in 0 .. time :
                                   /\ t1 <= t2
                                   /\ exchange'[y].sentAt = (t1 + skew) \div PerMilli
                                   /\ exchange'[y].serverTime = t2 \div PerMilli
        BY DEF ExchangesBracket, Send
    <2>1. CASE y = x
        <3>1. exchange'[y].pc = "asked" /\ exchange'[y].sentAt = BrowserMillis
            BY <2>1 DEF IInv, TypeOK, Send, Exchange
        <3>2. time \in 0 .. time
            BY LimitsAssumption DEF IInv, TypeOK
        <3> QED BY <3>1, <3>2 DEF BrowserMillis
    <2>2. CASE y # x
        BY <2>2 DEF IInv, TypeOK, Exchange, ExchangesBracket, Send
    <2> QED BY <2>1, <2>2
<1>3. StreakBrackets' /\ ClockIsBest' /\ LookIsRecent'
    BY DEF IInv, Send, StreakBrackets, ClockIsBest, Brackets, LookIsRecent
<1> QED BY <1>1, <1>2, <1>3 DEF IInv

LEMMA ReplyPreserves ==
    ASSUME IInv, NEW x \in Exchanges, Reply(x)
    PROVE  IInv'
<1>1. TypeOK'
    BY ReadingsTyped DEF IInv, TypeOK, Reply, Exchange
<1>2. ExchangesBracket'
    <2> SUFFICES ASSUME NEW y \in Exchanges, ~ exchange'[y].astride
                 PROVE  /\ exchange'[y].pc = "asked" =>
                               \E t1 \in 0 .. time : exchange'[y].sentAt = (t1 + skew) \div PerMilli
                        /\ exchange'[y].pc = "answered" =>
                               \E t1 \in 0 .. time, t2 \in 0 .. time :
                                   /\ t1 <= t2
                                   /\ exchange'[y].sentAt = (t1 + skew) \div PerMilli
                                   /\ exchange'[y].serverTime = t2 \div PerMilli
        BY DEF ExchangesBracket, Reply
    <2>1. CASE y = x
        <3>1. /\ exchange'[y].pc = "answered" /\ exchange'[y].serverTime = ServerMillis
              /\ exchange'[y].sentAt = exchange[x].sentAt /\ ~ exchange[x].astride
            BY <2>1 DEF IInv, TypeOK, Reply, Exchange
        <3>2. PICK t1 \in 0 .. time : exchange[x].sentAt = (t1 + skew) \div PerMilli
            BY <3>1 DEF IInv, ExchangesBracket, Reply
        <3>3. time \in 0 .. time /\ t1 <= time
            BY LimitsAssumption DEF IInv, TypeOK
        <3> QED BY <3>1, <3>2, <3>3 DEF ServerMillis
    <2>2. CASE y # x
        BY <2>2 DEF IInv, TypeOK, Exchange, ExchangesBracket, Reply
    <2> QED BY <2>1, <2>2
<1>3. StreakBrackets' /\ ClockIsBest' /\ LookIsRecent'
    BY DEF IInv, Reply, StreakBrackets, ClockIsBest, Brackets, LookIsRecent
<1> QED BY <1>1, <1>2, <1>3 DEF IInv

LEMMA LosePreserves ==
    ASSUME IInv, NEW x \in Exchanges, Lose(x)
    PROVE  IInv'
<1>1. TypeOK'
    BY DEF IInv, TypeOK, Lose, Idle, Exchange
<1>2. ExchangesBracket'
    BY DEF IInv, TypeOK, Exchange, ExchangesBracket, Lose, Idle
<1>3. StreakBrackets' /\ ClockIsBest' /\ LookIsRecent'
    BY DEF IInv, Lose, StreakBrackets, ClockIsBest, Brackets, LookIsRecent
<1> QED BY <1>1, <1>2, <1>3 DEF IInv

LEMMA TickPreserves ==
    ASSUME IInv, Tick
    PROVE  IInv'
<1>1. TypeOK'
    <2>1. look' = look /\ look.at \in 0 .. time'
        BY LimitsAssumption DEF IInv, TypeOK, Tick
    <2>2. look' \in [now : Int, at : 0 .. time', astride : BOOLEAN]
        BY <2>1 DEF IInv, TypeOK
    <2> QED BY <2>2, LimitsAssumption DEF IInv, TypeOK, Tick
<1>2. 0 .. time \subseteq 0 .. time'
    BY LimitsAssumption DEF IInv, TypeOK, Tick
<1>3. ExchangesBracket'
    BY <1>2 DEF IInv, ExchangesBracket, Tick
<1>4. StreakBrackets' /\ ClockIsBest'
    BY DEF IInv, Tick, StreakBrackets, ClockIsBest, Brackets
<1>5. LookIsRecent'
    <2>1. time \in Int /\ look.at \in Int /\ LookInterval \in Int
        BY LimitsAssumption, LookAssumption DEF IInv, TypeOK
    <2>2. time' = time + 1 /\ time - look.at < LookInterval /\ UNCHANGED <<skew, look>>
        BY DEF Tick
    <2> QED BY <2>1, <2>2 DEF IInv, LookIsRecent
<1> QED BY <1>1, <1>3, <1>4, <1>5 DEF IInv

LEMMA LookPreserves ==
    ASSUME IInv, Look
    PROVE  IInv'
<1>1. UNCHANGED <<time, skew, settings, exchange, samples, clock, streak>> /\ look' = Reading
    BY DEF Look
<1>2. TypeOK'
    <2>1. look' \in [now : Int, at : 0 .. time, astride : BOOLEAN]
        BY <1>1, ReadingsTyped, LimitsAssumption DEF IInv, TypeOK, Reading
    <2> QED BY <1>1, <2>1 DEF IInv, TypeOK
<1>3. LookIsRecent'
    <2>1. time - time <= LookInterval
        BY LimitsAssumption, LookAssumption DEF IInv, TypeOK
    <2> QED BY <1>1, <2>1 DEF LookIsRecent, Reading, BrowserMillis
<1>4. ExchangesBracket' /\ StreakBrackets' /\ ClockIsBest'
    BY <1>1 DEF IInv, ExchangesBracket, StreakBrackets, ClockIsBest, Brackets
<1> QED BY <1>2, <1>3, <1>4 DEF IInv

LEMMA SetClockPreserves ==
    ASSUME IInv, SetClock
    PROVE  IInv'
<1>1. TypeOK'
    <2>1. \A x \in Exchanges : [exchange[x] EXCEPT !.astride = TRUE] \in Exchange
        BY DEF IInv, TypeOK, Exchange
    <2>2. exchange' \in [Exchanges -> Exchange]
        BY <2>1 DEF SetClock
    <2>3. 0 \in 0 .. MaxSamples
        BY LimitsAssumption
    <2>4. look' \in [now : Int, at : 0 .. time, astride : BOOLEAN]
        BY DEF IInv, TypeOK, SetClock
    <2> QED BY <2>2, <2>3, <2>4 DEF IInv, TypeOK, SetClock
<1>2. ExchangesBracket'
    BY DEF IInv, TypeOK, Exchange, ExchangesBracket, SetClock
<1>3. StreakBrackets'
    BY DEF IInv, TypeOK, SetClock, StreakBrackets
<1>4. ClockIsBest'
    BY DEF IInv, SetClock, ClockIsBest
<1>5. LookIsRecent'
    <2>1. look'.at = look.at /\ look'.astride
        BY DEF IInv, TypeOK, SetClock
    <2> QED BY <2>1 DEF IInv, LookIsRecent, SetClock
<1> QED BY <1>1, <1>2, <1>3, <1>4, <1>5 DEF IInv

\* Keep adds the sample at the end, and drops the oldest when there are too many.
LEMMA KeepAppends ==
    ASSUME samples \in Seq(Sample), Len(samples) <= MaxSamples, NEW sample \in Sample
    PROVE  /\ Keep(sample) \in Seq(Sample) /\ Keep(sample) # <<>> /\ Len(Keep(sample)) <= MaxSamples
           /\ \E d \in {0, 1} :
                  /\ Len(Keep(sample)) = Len(samples) + 1 - d
                  /\ \A i \in DOMAIN Keep(sample) :
                         Keep(sample)[i] = IF i = Len(Keep(sample)) THEN sample ELSE samples[i + d]
<1> DEFINE all == Append(samples, sample)
<1>1. /\ all \in Seq(Sample) /\ Len(all) = Len(samples) + 1 /\ Len(samples) \in Nat
      /\ \A i \in 1 .. Len(samples) : all[i] = samples[i]
      /\ all[Len(samples) + 1] = sample
    OBVIOUS
<1>2. MaxSamples \in Nat \ {0}
    BY LimitsAssumption
<1> HIDE DEF all
<1>3. CASE Len(all) > MaxSamples
    <2>1. Keep(sample) = Tail(all)
        BY <1>3 DEF Keep, all
    <2>2. /\ Tail(all) \in Seq(Sample) /\ Len(Tail(all)) = Len(samples)
          /\ DOMAIN Tail(all) = 1 .. Len(samples)
          /\ \A i \in 1 .. Len(samples) : Tail(all)[i] = all[i + 1]
        BY <1>1, <1>2, <1>3
    <2>3. Len(samples) = MaxSamples
        BY <1>1, <1>2, <1>3
    <2>4. \A i \in 1 .. Len(samples) :
              Tail(all)[i] = IF i = Len(samples) THEN sample ELSE samples[i + 1]
        BY <1>1, <2>2
    <2>5. Tail(all) # <<>>
        BY <2>2, <2>3, <1>2
    <2> QED BY <2>1, <2>2, <2>3, <2>4, <2>5, <1>1
<1>4. CASE ~ (Len(all) > MaxSamples)
    <2>1. Keep(sample) = all
        BY <1>4 DEF Keep, all
    <2>2. DOMAIN all = 1 .. Len(samples) + 1 /\ all # <<>> /\ Len(all) <= MaxSamples
        BY <1>1, <1>2, <1>4
    <2>3. \A i \in DOMAIN all : all[i] = IF i = Len(all) THEN sample ELSE samples[i + 0]
        BY <1>1, <2>2
    <2> QED BY <2>1, <2>2, <2>3, <1>1
<1> QED BY <1>3, <1>4

\* A measurement during which the clock was not set brackets the server's.
LEMMA MeasuredBrackets ==
    ASSUME IInv, NEW x \in Exchanges, exchange[x].pc = "answered", ~ exchange[x].astride
    PROVE  Brackets(Measured(x))
<1>1. PICK t1 \in 0 .. time, t2 \in 0 .. time :
          /\ t1 <= t2
          /\ exchange[x].sentAt = (t1 + skew) \div PerMilli
          /\ exchange[x].serverTime = t2 \div PerMilli
    BY DEF IInv, ExchangesBracket
<1>2. skew \in Int /\ t1 \in Int /\ t2 \in Int /\ time \in Int /\ t1 <= t2 /\ t2 <= time
    BY <1>1, GrainsAssumption, LimitsAssumption DEF IInv, TypeOK
<1>3. Within(PerMilli * (2 * exchange[x].serverTime - exchange[x].sentAt - BrowserMillis) + 2 * skew,
             PerMilli * (BrowserMillis - exchange[x].sentAt + 2))
    BY <1>1, <1>2, Bracket DEF BrowserMillis
<1> QED BY <1>3 DEF Brackets, Measured

LEMMA ReceivePreserves ==
    ASSUME IInv, NEW x \in Exchanges, Receive(x)
    PROVE  IInv'
<1>1. ExchangesBracket'
    BY DEF IInv, TypeOK, Exchange, ExchangesBracket, Receive, Idle
<1>2. exchange' \in [Exchanges -> Exchange]
    BY DEF IInv, TypeOK, Receive, Idle, Exchange
<1>3. LookIsRecent'
    BY DEF IInv, LookIsRecent, Receive
<1>4. CASE Measured(x).rtt \in 0 .. MaxRtt
    <2>1. /\ samples' = Keep(Measured(x)) /\ RecordSample(Measured(x))
          /\ streak' = IF exchange[x].astride THEN 0
                       ELSE IF streak < MaxSamples THEN streak + 1 ELSE streak
        BY <1>4 DEF Receive, RecordSample
    <2>2. Measured(x) \in Sample
        <3>1. 2 * exchange[x].serverTime - exchange[x].sentAt - BrowserMillis \in Int
            BY ReadingsTyped DEF IInv, TypeOK, Exchange
        <3> QED BY <3>1, <1>4 DEF Measured, Sample
    <2>3. samples \in Seq(Sample) /\ Len(samples) <= MaxSamples
        BY DEF IInv, TypeOK
    <2>4. samples' \in Seq(Sample) /\ samples' # <<>> /\ Len(samples') <= MaxSamples
        BY <2>1, <2>2, <2>3, KeepAppends
    <2>5. PICK d \in {0, 1} :
              /\ Len(samples') = Len(samples) + 1 - d
              /\ \A i \in DOMAIN samples' :
                     samples'[i] = IF i = Len(samples') THEN Measured(x) ELSE samples[i + d]
        BY <2>1, <2>2, <2>3, KeepAppends
    <2>6. PICK best \in DOMAIN samples' : IsBest(samples', best) /\ Best(samples') = samples'[best]
        BY <2>4, BestExists DEF Best
    <2>7. clock' = [offsetMillis |-> Rounded(samples'[best].offset2), rttMillis |-> samples'[best].rtt,
                    synced |-> TRUE]
        BY <2>1, <2>6 DEF RecordSample
    <2>8. samples'[best] \in Sample
        BY <2>4
    <2>9. Rounded(samples'[best].offset2) \in Int
        BY <2>8 DEF Rounded, Sample
    <2>10. streak \in Nat /\ streak' \in 0 .. MaxSamples /\ streak' <= streak + 1
        BY <2>1, LimitsAssumption DEF IInv, TypeOK
    <2>11. TypeOK'
        <3>1. clock' \in [offsetMillis : Int, rttMillis : 0 .. MaxRtt, synced : BOOLEAN]
            BY <2>7, <2>8, <2>9 DEF Sample
        <3>2. clock'.synced <=> samples' # <<>>
            BY <2>4, <2>7
        <3> QED BY <3>1, <3>2, <2>4, <2>10, <1>2 DEF IInv, TypeOK, Receive
    <2>12. StreakBrackets'
        <3> SUFFICES ASSUME NEW i \in DOMAIN samples', i > Len(samples') - streak'
                     PROVE  Brackets(samples'[i])
            BY DEF StreakBrackets, Brackets, Receive
        <3>1. ~ exchange[x].astride
            BY <2>1, <2>4
        <3>2. CASE i = Len(samples')
            BY <3>1, <3>2, <2>5, MeasuredBrackets DEF Receive
        <3>3. CASE i # Len(samples')
            <4>1. Len(samples) \in Nat /\ DOMAIN samples = 1 .. Len(samples)
                BY <2>3
            <4>2. i \in 1 .. Len(samples') /\ Len(samples') \in Nat
                BY <2>4
            <4>3. i + d \in DOMAIN samples /\ i + d > Len(samples) - streak
                BY <4>1, <4>2, <3>3, <2>5, <2>10
            <4>4. samples'[i] = samples[i + d]
                BY <3>3, <2>5
            <4> QED BY <4>3, <4>4 DEF IInv, StreakBrackets
        <3> QED BY <3>2, <3>3
    <2>13. ClockIsBest'
        BY <2>6, <2>7 DEF ClockIsBest
    <2> QED BY <2>11, <2>12, <2>13, <1>1, <1>3 DEF IInv
<1>5. CASE Measured(x).rtt \notin 0 .. MaxRtt
    <2>1. UNCHANGED <<time, skew, settings, samples, clock, look, streak>>
        BY <1>5 DEF Receive
    <2>2. TypeOK'
        BY <2>1, <1>2 DEF IInv, TypeOK
    <2> QED BY <2>1, <2>2, <1>1, <1>3 DEF IInv, StreakBrackets, ClockIsBest, Brackets
<1> QED BY <1>4, <1>5

LEMMA Invariance == Spec => []IInv
<1>1. IInv /\ [Next]_vars => IInv'
    <2> SUFFICES ASSUME IInv, [Next]_vars PROVE IInv'
        OBVIOUS
    <2>1. CASE UNCHANGED vars
        BY <2>1 DEF vars, IInv, TypeOK, ExchangesBracket, StreakBrackets, ClockIsBest, Brackets,
                  LookIsRecent
    <2> QED BY <2>1, SendPreserves, ReplyPreserves, ReceivePreserves, LosePreserves, TickPreserves,
               LookPreserves, SetClockPreserves DEF Next
<1> QED BY <1>1, Initially, PTL DEF Spec

-----------------------------------------------------------------------------
(* The theorems.                                                           *)

\* Every reachable state is well typed, for any grain, limits and clocks.
THEOREM TypeCorrectness == Spec => []TypeOK
<1>1. IInv => TypeOK
    BY DEF IInv
<1> QED BY <1>1, Invariance, PTL

\* The estimate is within half of the shortest round trip that is kept.
LEMMA EstimateBound == IInv => EstimateWithinBound
<1> SUFFICES ASSUME IInv, Settled, NEW j \in DOMAIN samples
             PROVE  Within(2 * (PerMilli * clock.offsetMillis + skew), PerMilli * (samples[j].rtt + 3))
    BY DEF EstimateWithinBound
<1>1. PICK i \in DOMAIN samples :
          /\ IsBest(samples, i)
          /\ clock.offsetMillis = Rounded(samples[i].offset2)
    BY DEF IInv, ClockIsBest
<1>2. samples \in Seq(Sample) /\ streak >= Len(samples) /\ streak \in Int
    BY LimitsAssumption DEF IInv, TypeOK, Settled
<1>3. i > Len(samples) - streak
    BY <1>2
<1>4. Brackets(samples[i])
    BY <1>3 DEF IInv, StreakBrackets
<1> DEFINE o == samples[i].offset2
           r == samples[i].rtt
           q == samples[j].rtt
           e == clock.offsetMillis
<1>5. samples[i] \in Sample /\ samples[j] \in Sample
    BY <1>2
<1>6. o \in Int /\ r \in Int /\ q \in Int /\ r <= q /\ e \in Int /\ skew \in Int
    BY <1>1, <1>5, GrainsAssumption, LimitsAssumption DEF Sample, IsBest, IInv, TypeOK
<1>7. 2 * e = o \/ 2 * e = o + 1
    BY <1>1, <1>6 DEF Rounded
<1>8. Within(PerMilli * o + 2 * skew, PerMilli * (r + 2))
    BY <1>4 DEF Brackets
<1> HIDE DEF o, r, q, e
<1>9. PerMilli \in Int /\ PerMilli > 0
    BY GrainsAssumption
<1>10. Within(2 * (PerMilli * e + skew), PerMilli * (r + 3))
    <2>1. 2 * (PerMilli * e + skew) = PerMilli * (2 * e) + 2 * skew
        BY <1>6, <1>9
    <2>2. PerMilli * (r + 3) = PerMilli * (r + 2) + PerMilli
        BY <1>6, <1>9
    <2>3. PerMilli * (o + 1) = PerMilli * o + PerMilli
        BY <1>6, <1>9
    <2>4. PerMilli * o \in Int /\ PerMilli * (r + 2) \in Int
        BY <1>6, <1>9
    <2> QED BY <2>1, <2>2, <2>3, <2>4, <1>6, <1>7, <1>8, <1>9 DEF Within
<1>11. PerMilli * (r + 3) <= PerMilli * (q + 3)
    BY <1>6, <1>9
<1>12. Within(2 * (PerMilli * e + skew), PerMilli * (q + 3))
    <2>1. PerMilli * e \in Int /\ PerMilli * (r + 3) \in Int /\ PerMilli * (q + 3) \in Int
        BY <1>6, <1>9
    <2> QED BY <2>1, <1>6, <1>10, <1>11 DEF Within
<1> QED BY <1>12 DEF e, q

THEOREM EstimateAlways == Spec => []EstimateWithinBound
BY Invariance, EstimateBound, PTL

\* The server's time that the page computes was off by at most Tolerance2 when
\* it looked.
LEMMA ServerNowBound ==
    ASSUME IInv, Settled, ~ look.astride
    PROVE  /\ ServerNowMillis \in Int /\ look.at \in Int /\ Tolerance2 \in Int
           /\ 2 * (PerMilli * ServerNowMillis) <= 2 * look.at + Tolerance2 - 2 * PerMilli
           /\ 2 * look.at - Tolerance2 < 2 * (PerMilli * ServerNowMillis)
<1>1. PICK i \in DOMAIN samples : clock.rttMillis = samples[i].rtt
    BY DEF IInv, ClockIsBest, TypeOK, Settled
<1> DEFINE e == clock.offsetMillis
           a == look.at
           b == look.now
           rtt == clock.rttMillis
<1>2. Within(2 * (PerMilli * e + skew), PerMilli * (rtt + 3))
    BY <1>1, EstimateBound DEF EstimateWithinBound
<1>3. e \in Int /\ rtt \in Int /\ skew \in Int /\ a \in Int /\ a + skew \in Int
    BY GrainsAssumption, LimitsAssumption DEF IInv, TypeOK
<1>4. PerMilli \in Int /\ PerMilli > 0
    BY GrainsAssumption
<1>5. b \in Int /\ PerMilli * b <= a + skew /\ a + skew < PerMilli * b + PerMilli
    BY <1>3, Floor DEF IInv, LookIsRecent
<1>6. ServerNowMillis = b + e
    BY DEF ServerNowMillis, ToServerMillis
<1>7. Tolerance2 = PerMilli * (rtt + 5)
    BY DEF Tolerance2
<1> HIDE DEF e, a, b, rtt
<1> DEFINE ge == PerMilli * e
           gb == PerMilli * b
           gr == PerMilli * rtt
<1>8. ge \in Int /\ gb \in Int /\ gr \in Int
    BY <1>3, <1>4, <1>5
<1>9. /\ PerMilli * (b + e) = gb + ge
      /\ PerMilli * (rtt + 3) = gr + 3 * PerMilli
      /\ PerMilli * (rtt + 5) = gr + 5 * PerMilli
    BY <1>3, <1>4, <1>5
<1>10. Within(2 * (ge + skew), gr + 3 * PerMilli)
    BY <1>2, <1>9
<1>11. gb <= a + skew /\ a + skew < gb + PerMilli
    BY <1>5
<1>12. /\ 2 * (gb + ge) <= 2 * a + (gr + 5 * PerMilli) - 2 * PerMilli
       /\ 2 * a - (gr + 5 * PerMilli) < 2 * (gb + ge)
    <2> HIDE DEF ge, gb, gr
    <2> QED BY <1>3, <1>4, <1>8, <1>10, <1>11 DEF Within
<1>13. b + e \in Int /\ gr + 5 * PerMilli \in Int
    BY <1>3, <1>4, <1>5
<1>14. /\ ServerNowMillis \in Int /\ a \in Int /\ Tolerance2 \in Int
       /\ 2 * (PerMilli * ServerNowMillis) <= 2 * a + Tolerance2 - 2 * PerMilli
       /\ 2 * a - Tolerance2 < 2 * (PerMilli * ServerNowMillis)
    BY <1>3, <1>6, <1>7, <1>9, <1>12, <1>13
<1> QED BY <1>14 DEF a

\* Multiplication by PerMilli keeps the order.
LEMMA Scale ==
    ASSUME NEW a \in Int, NEW b \in Int
    PROVE  /\ a <= b <=> PerMilli * a <= PerMilli * b
           /\ a < b => PerMilli * a + PerMilli <= PerMilli * b
           /\ PerMilli * a \in Int
<1>1. PerMilli \in Int /\ PerMilli > 0
    BY GrainsAssumption
<1> QED BY <1>1, Z3

\* A page shows a sync when the server's instants say so, give or take half of
\* its best round trip and the truncations, and late by the age of its last look.
LEMMA OnTime == IInv => OverrideOnTime
<1> SUFFICES ASSUME IInv, Settled, ~ look.astride, NEW event \in Syncs
             PROVE  /\ OnScreen(event) =>
                           /\ 2 * event.startAt - Tolerance2 <= 2 * time
                           /\ 2 * time < 2 * (event.endAt + LookInterval) + Tolerance2
                    /\ /\ 2 * (event.startAt + LookInterval) + Tolerance2 <= 2 * time
                       /\ 2 * time < 2 * event.endAt - Tolerance2
                       => OnScreen(event)
    BY DEF OverrideOnTime
<1> DEFINE n == ServerNowMillis
           a == look.at
           startAt == event.startAt
           endAt == event.endAt
           first == startAt \div PerMilli
           last == endAt \div PerMilli
<1>1. startAt \in Int /\ endAt \in Int /\ PerMilli \in Int /\ PerMilli > 0 /\ LookInterval \in Int
    BY GrainsAssumption, SyncsAssumption, LookAssumption
<1>2. time \in Int /\ a <= time /\ time - a <= LookInterval
    BY LimitsAssumption DEF IInv, TypeOK, LookIsRecent
<1>3. /\ n \in Int /\ a \in Int /\ Tolerance2 \in Int
      /\ 2 * (PerMilli * n) <= 2 * a + Tolerance2 - 2 * PerMilli
      /\ 2 * a - Tolerance2 < 2 * (PerMilli * n)
    BY ServerNowBound
<1>4. /\ first \in Int /\ PerMilli * first <= startAt /\ startAt < PerMilli * first + PerMilli
      /\ last \in Int /\ PerMilli * last <= endAt /\ endAt < PerMilli * last + PerMilli
    BY <1>1, Floor
<1>5. OnScreen(event) <=> first <= n /\ n < last
    <2>1. OnScreen(event) <=> ~ (n < first) /\ ~ (n >= last)
        BY DEF OnScreen, ResolveSyncPhase
    <2> HIDE DEF n, first, last
    <2> QED BY <2>1, <1>3, <1>4
<1> HIDE DEF n, a, first, last
<1>6. /\ first <= n <=> PerMilli * first <= PerMilli * n
      /\ n < last => PerMilli * n + PerMilli <= PerMilli * last
      /\ last <= n <=> PerMilli * last <= PerMilli * n
    BY <1>3, <1>4, Scale
<1> DEFINE pn == PerMilli * n
           pf == PerMilli * first
           pl == PerMilli * last
<1>7. pn \in Int /\ pf \in Int /\ pl \in Int
    BY <1>3, <1>4, Scale
<1>8. /\ 2 * pn <= 2 * a + Tolerance2 - 2 * PerMilli /\ 2 * a - Tolerance2 < 2 * pn
      /\ pf <= startAt /\ startAt < pf + PerMilli /\ pl <= endAt /\ endAt < pl + PerMilli
    BY <1>3, <1>4
<1> HIDE DEF pn, pf, pl, startAt, endAt
<1>9. ASSUME OnScreen(event)
      PROVE  2 * startAt - Tolerance2 <= 2 * time /\ 2 * time < 2 * (endAt + LookInterval) + Tolerance2
    <2>1. pf <= pn /\ pn + PerMilli <= pl
        BY <1>5, <1>6, <1>9 DEF pn, pf, pl
    <2>2. 2 * startAt - Tolerance2 <= 2 * a /\ 2 * a < 2 * endAt + Tolerance2
        BY <2>1, <1>1, <1>3, <1>7, <1>8
    <2> QED BY <2>2, <1>1, <1>2, <1>3
<1>10. ASSUME 2 * (startAt + LookInterval) + Tolerance2 <= 2 * time, 2 * time < 2 * endAt - Tolerance2
       PROVE  OnScreen(event)
    <2>1. 2 * startAt + Tolerance2 <= 2 * a /\ 2 * a < 2 * endAt - Tolerance2
        BY <1>1, <1>2, <1>3, <1>10
    <2>2. pf <= pn /\ ~ (pl <= pn)
        BY <2>1, <1>1, <1>3, <1>7, <1>8
    <2>3. first <= n /\ ~ (last <= n)
        BY <2>2, <1>6 DEF pn, pf, pl
    <2> QED BY <2>3, <1>5, <1>3, <1>4
<1> QED BY <1>9, <1>10 DEF startAt, endAt

THEOREM OverrideAlways == Spec => []OverrideOnTime
BY Invariance, OnTime, PTL

=============================================================================

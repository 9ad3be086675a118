------------------------- MODULE PlaylistFeedProofs -------------------------
(***************************************************************************)
(* Proofs about PlaylistFeed, for any number of windows, browsers, edits   *)
(* and requests: the types, and that a browser with a greeted connection   *)
(* shows what was committed unless something raced.                        *)
(***************************************************************************)
EXTENDS PlaylistFeed, FiniteSetTheorems, SequenceTheorems, TLAPS

-----------------------------------------------------------------------------
(* The types.                                                              *)

Change == [type : {"PLAYLIST_UPDATED"}, window : Windows, version : Versions]
Greeting == [type : {"HELLO"}, read : Snapshot]
Message == Change \cup Greeting

Begun == {e \in Edits : edit[e].pc # "idle"}

\* There is a version for every edit that has begun.
TInv ==
    /\ env \in Environments
    /\ TypeOK
    /\ broadcast \in Seq(Change)
    /\ feed \in [Browsers -> Seq(Message)]
    /\ \A e \in Edits : edit[e].pc \in {"reload", "publish"} => edit[e].window \in Windows
    /\ \A w \in Windows : db[w] <= Cardinality(Begun) + 1

-----------------------------------------------------------------------------
(* What is on its way.                                                     *)

\* The places of the changes of a window in a queue.
News(s, w) == {k \in DOMAIN s : s[k].type = "PLAYLIST_UPDATED" /\ s[k].window = w}

\* The last change of w in a queue, if there is one, is version v.
Newest(s, w, v) == \A k \in News(s, w) : (\A l \in News(s, w) : l <= k) => s[k].version = v

\* A connection that is not registered yet, or is lost, brings nothing.
Unlinked(b) == feed[b] = <<>> /\ b \notin registered /\ ~ greeted[b]
Links ==
    \A b \in Browsers :
        /\ greeting[b].pc = "register" => Unlinked(b)
        /\ socket[b] = "closed" => Unlinked(b) /\ greeting[b].pc = "idle"

\* An edit that raced with no other publishes the version it made.
Announces ==
    \A w \in Windows \ contested : \A e \in Publishing(w) :
        /\ Publishing(w) = {e}
        /\ edit[e].pc = "publish" => edit[e].read = db[w]

\* The last change of w that is on its way to browser b, or else what it shows.
OnWay(b, w) ==
    /\ Newest(feed[b], w, db[w])
    /\ greeted[b] /\ News(feed[b], w) = {} => view[b][w] = db[w] \/ w \in outdated[b]

\* When no edit of w is about to be published, the newest version is the last one
\* in the hub's queue, or else on its way to everyone who is registered.
Delivers ==
    \A w \in Windows \ contested : Publishing(w) = {} =>
        /\ Newest(broadcast, w, db[w])
        /\ \A b \in registered : News(broadcast, w) = {} => OnWay(b, w)

DInv == Links /\ Announces /\ Delivers

-----------------------------------------------------------------------------
(* Queues.                                                                 *)

LEMMA Appended ==
    ASSUME NEW S, NEW s \in Seq(S), NEW m \in S
    PROVE  /\ Append(s, m) \in Seq(S) /\ Len(Append(s, m)) = Len(s) + 1 /\ Len(s) \in Nat
           /\ DOMAIN s = 1 .. Len(s) /\ DOMAIN Append(s, m) = 1 .. Len(s) + 1
           /\ \A k \in 1 .. Len(s) : Append(s, m)[k] = s[k]
           /\ Append(s, m)[Len(s) + 1] = m
  OBVIOUS

LEMMA TailIs ==
    ASSUME NEW S, NEW s \in Seq(S), s # <<>>
    PROVE  /\ Head(s) = s[1] /\ Head(s) \in S
           /\ Tail(s) \in Seq(S) /\ Len(Tail(s)) = Len(s) - 1 /\ Len(s) \in Nat \ {0}
           /\ DOMAIN s = 1 .. Len(s) /\ DOMAIN Tail(s) = 1 .. Len(s) - 1
           /\ \A k \in 1 .. Len(s) - 1 : Tail(s)[k] = s[k + 1]
  OBVIOUS

\* A message that is no change of w changes nothing for w; one that is, is the
\* newest.
LEMMA NewsAppended ==
    ASSUME NEW S, NEW s \in Seq(S), NEW m \in S, NEW w
    PROVE  /\ ~ (m.type = "PLAYLIST_UPDATED" /\ m.window = w) => News(Append(s, m), w) = News(s, w)
           /\ m.type = "PLAYLIST_UPDATED" /\ m.window = w =>
                 News(Append(s, m), w) # {} /\ Newest(Append(s, m), w, m.version)
           /\ \A v : ~ (m.type = "PLAYLIST_UPDATED" /\ m.window = w) /\ Newest(s, w, v)
                        => Newest(Append(s, m), w, v)
  <1> DEFINE t == Append(s, m)
             n == Len(s)
  <1>1. /\ n \in Nat /\ DOMAIN s = 1 .. n /\ DOMAIN t = 1 .. n + 1
        /\ t[n + 1] = m /\ \A k \in 1 .. n : t[k] = s[k]
    BY Appended
  <1> HIDE DEF t, n
  <1>2. \A k \in 1 .. n + 1 : k \in 1 .. n \/ k = n + 1
    BY <1>1
  <1>3. CASE ~ (m.type = "PLAYLIST_UPDATED" /\ m.window = w)
    <2>1. News(t, w) = News(s, w) /\ News(s, w) \subseteq 1 .. n
      BY <1>1, <1>2, <1>3 DEF News
    <2>2. \A v : Newest(s, w, v) => Newest(t, w, v)
      BY <1>1, <2>1 DEF Newest
    <2> QED BY <1>3, <2>1, <2>2 DEF t
  <1>4. CASE m.type = "PLAYLIST_UPDATED" /\ m.window = w
    <2>1. n + 1 \in News(t, w) /\ \A k \in News(t, w) : k \in 1 .. n + 1
      BY <1>1, <1>4 DEF News
    <2>2. Newest(t, w, m.version)
      <3> SUFFICES ASSUME NEW k \in News(t, w), \A l \in News(t, w) : l <= k PROVE t[k].version = m.version
        BY DEF Newest
      <3>1. k \in 1 .. n + 1 /\ n + 1 <= k
        BY <2>1
      <3>2. k = n + 1
        BY <1>1, <3>1
      <3> QED BY <1>1, <3>2
    <2> QED BY <1>4, <2>1, <2>2 DEF t
  <1> QED BY <1>3, <1>4

\* The queue without its head.
LEMMA NewsTail ==
    ASSUME NEW S, NEW s \in Seq(S), s # <<>>, NEW w
    PROVE  /\ \A v : Newest(s, w, v) => Newest(Tail(s), w, v)
           /\ News(s, w) = {} => News(Tail(s), w) = {}
           /\ News(Tail(s), w) = {} =>
                 IF Head(s).type = "PLAYLIST_UPDATED" /\ Head(s).window = w
                 THEN \A v : Newest(s, w, v) => Head(s).version = v
                 ELSE News(s, w) = {}
  <1> DEFINE t == Tail(s)
             h == Head(s)
             n == Len(s)
  <1>1. /\ n \in Nat \ {0} /\ DOMAIN s = 1 .. n /\ DOMAIN t = 1 .. n - 1
        /\ h = s[1] /\ \A k \in 1 .. n - 1 : t[k] = s[k + 1]
    BY TailIs
  <1> HIDE DEF t, h, n
  <1>2. \A k \in 1 .. n - 1 : k + 1 \in 1 .. n /\ k \in Nat
    BY <1>1
  <1>3. \A k \in 1 .. n : k = 1 \/ (k - 1 \in 1 .. n - 1 /\ (k - 1) + 1 = k)
    BY <1>1
  <1>4. \A k \in 1 .. n - 1 : k \in News(t, w) <=> k + 1 \in News(s, w)
    BY <1>1, <1>2 DEF News
  <1>5. News(t, w) \subseteq 1 .. n - 1 /\ News(s, w) \subseteq 1 .. n
    BY <1>1 DEF News
  <1>6. 1 \in News(s, w) <=> h.type = "PLAYLIST_UPDATED" /\ h.window = w
    BY <1>1 DEF News
  <1>7. ASSUME NEW v, Newest(s, w, v) PROVE Newest(t, w, v)
    <2> SUFFICES ASSUME NEW k \in News(t, w), \A l \in News(t, w) : l <= k PROVE t[k].version = v
      BY DEF Newest
    <2>1. k \in 1 .. n - 1 /\ k + 1 \in News(s, w) /\ t[k] = s[k + 1]
      BY <1>1, <1>4, <1>5
    <2>2. ASSUME NEW l \in News(s, w) PROVE l <= k + 1
      <3>1. CASE l = 1
        BY <1>2, <2>1, <3>1
      <3>2. CASE l - 1 \in 1 .. n - 1 /\ (l - 1) + 1 = l
        <4>1. l - 1 \in News(t, w)
          BY <1>4, <3>2
        <4>2. l - 1 <= k /\ l \in 1 .. n
          BY <1>5, <4>1
        <4> QED BY <2>1, <4>2
      <3> QED BY <1>3, <1>5, <3>1, <3>2
    <2> QED BY <1>7, <2>1, <2>2 DEF Newest
  <1>8. ASSUME News(s, w) = {} PROVE News(t, w) = {}
    BY <1>4, <1>5, <1>8
  <1>9. ASSUME News(t, w) = {} PROVE News(s, w) \subseteq {1}
    BY <1>3, <1>4, <1>5, <1>9
  <1>10. ASSUME News(t, w) = {}, 1 \in News(s, w), NEW v, Newest(s, w, v) PROVE h.version = v
    <2>1. \A l \in News(s, w) : l <= 1
      BY <1>9, <1>10
    <2> QED BY <1>1, <1>10, <2>1 DEF Newest
  <1>11. ASSUME News(t, w) = {}, 1 \notin News(s, w) PROVE News(s, w) = {}
    BY <1>9, <1>11
  <1>12. News(t, w) = {} => IF h.type = "PLAYLIST_UPDATED" /\ h.window = w
                             THEN \A v : Newest(s, w, v) => h.version = v
                             ELSE News(s, w) = {}
    BY <1>6, <1>10, <1>11
  <1> QED BY <1>7, <1>8, <1>12 DEF t, h

-----------------------------------------------------------------------------
(* Types are kept.                                                         *)

EditState == [pc : {"idle", "reload", "publish", "answer", "done"},
              by : Browsers \cup {Elsewhere}, window : Windows \cup {NoWindow}, read : Versions]

LEMMA EnvironmentFacts ==
    ASSUME env \in Environments
    PROVE  /\ env.edits \subseteq Edits /\ env.windows \subseteq Windows /\ env.maxConnects \in Nat \ {0}
           /\ env.requests \subseteq Requests
  <1>1. env \in Environment /\ env.maxConnects > 0
    BY EnvironmentsAssumption
  <1> QED BY <1>1 DEF Environment

LEMMA Bounds == Cardinality(Edits) \in Nat /\ 0 \in Versions /\ 1 \in Versions /\ Versions \subseteq Nat
  <1>1. Cardinality(Edits) \in Nat
    BY BoundsAssumption, FS_CardinalityType
  <1> QED BY <1>1 DEF Versions

LEMMA Readers ==
    /\ IdleReader \in Reader
    /\ \A pc \in {"idle", "register", "windows"}, poll \in BOOLEAN : NewReader(pc, poll) \in Reader
  <1>1. Nothing \in Snapshot
    BY Bounds DEF Nothing, Snapshot
  <1> HIDE DEF Nothing, Snapshot
  <1> QED BY <1>1 DEF IdleReader, NewReader, Reader

LEMMA SnapshotRead == ASSUME TypeOK, NEW r \in Reader PROVE ReadSnapshot(r) \in Reader
  <1>1. db \in Snapshot /\ \A S : [w \in Windows |-> IF w \in S THEN db[w] ELSE 0] \in Snapshot
    BY Bounds DEF TypeOK, Snapshot
  <1>2. {w \in Windows : db[w] > 0} \in SUBSET Windows
    OBVIOUS
  <1> DEFINE known == {w \in Windows : db[w] > 0}
             read == [w \in Windows |-> IF w \in r.known THEN db[w] ELSE 0]
  <1>3. known \in SUBSET Windows /\ read \in Snapshot
    BY <1>1, <1>2
  <1>4. ReadSnapshot(r) = IF r.pc = "windows" THEN [r EXCEPT !.pc = "playlists", !.known = known]
                          ELSE [r EXCEPT !.pc = "answer", !.known = {}, !.read = read]
    BY DEF ReadSnapshot
  <1> HIDE DEF known, read, Snapshot
  <1> QED BY <1>3, <1>4 DEF Reader

LEMMA Asked ==
    ASSUME NEW requests \in [Requests -> Reader], NEW poll \in BOOLEAN
    PROVE  Ask(requests, poll) \in [Requests -> Reader]
  <1>1. NewReader("windows", poll) \in Reader
    BY Readers
  <1> HIDE DEF NewReader, Reader
  <1> QED BY <1>1 DEF Ask

\* The edits of a step are those that had begun, and no version is made.
LEMMA NoneBegins ==
    ASSUME TInv, db' = db, \A e \in Edits : edit'[e].pc = "idle" <=> edit[e].pc = "idle"
    PROVE  \A w \in Windows : db'[w] <= Cardinality(Begun') + 1
  <1>1. Begun' = Begun
    BY DEF Begun
  <1> QED BY <1>1 DEF TInv

\* An edit begins with a new version of its window.
LEMMA ChangesTyped ==
    ASSUME TInv, NEW e \in Edits, NEW w \in Windows, NEW by \in Browsers \cup {Elsewhere},
           NEW step \in {"reload", "publish"}, NEW contestants, edit[e].pc = "idle",
           Changes(e, w, by, step, contestants)
    PROVE  TInv'
  <1> DEFINE v == db[w] + 1
             new == [pc |-> step, by |-> by, window |-> w, read |-> v]
  <1>1. /\ db \in [Windows -> Versions] /\ edit \in [Edits -> EditState]
        /\ db[w] \in Nat /\ \A x \in Windows : db[x] \in Nat /\ db[x] <= Cardinality(Begun) + 1
    BY Bounds DEF TInv, TypeOK, Snapshot, EditState
  <1>2. /\ db' = [db EXCEPT ![w] = v] /\ edit' = [edit EXCEPT ![e] = new]
        /\ contested' \in {contested \ {w}, contested \cup {w}}
    BY DEF Changes
  <1>3. /\ IsFiniteSet(Begun) /\ IsFiniteSet(Begun \cup {e}) /\ Cardinality(Begun) \in Nat
        /\ Cardinality(Begun \cup {e}) = Cardinality(Begun) + 1
        /\ Cardinality(Begun \cup {e}) <= Cardinality(Edits)
    <2>1. IsFiniteSet(Edits) /\ Begun \subseteq Edits /\ Begun \cup {e} \subseteq Edits /\ e \notin Begun
      BY BoundsAssumption DEF Begun
    <2>2. /\ IsFiniteSet(Begun) /\ IsFiniteSet(Begun \cup {e})
          /\ Cardinality(Begun \cup {e}) <= Cardinality(Edits)
      BY <2>1, FS_Subset
    <2> QED BY <2>1, <2>2, FS_AddElement, FS_CardinalityType
  <1>4. v \in Versions
    <2>1. v \in Nat /\ v <= Cardinality(Begun) + 2
      BY <1>1, <1>3
    <2>2. Cardinality(Begun) + 1 <= Cardinality(Edits) /\ Cardinality(Edits) \in Nat
      BY <1>3, Bounds
    <2> HIDE DEF v
    <2> QED BY <1>3, <2>1, <2>2 DEF Versions
  <1>5. new \in EditState
    BY <1>4 DEF EditState
  <1>6. Begun' = Begun \cup {e}
    <2>1. new.pc # "idle"
      OBVIOUS
    <2> HIDE DEF new
    <2> QED BY <1>1, <1>2, <2>1 DEF Begun
  <1>7. \A x \in Windows : db'[x] <= Cardinality(Begun') + 1
    <2> SUFFICES ASSUME NEW x \in Windows PROVE db'[x] <= Cardinality(Begun \cup {e}) + 1
      BY <1>6
    <2>1. db'[x] = db[x] \/ db'[x] = db[x] + 1
      BY <1>1, <1>2
    <2> QED BY <1>1, <1>3, <2>1
  <1>8. db' \in Snapshot /\ edit' \in [Edits -> EditState]
    <2> HIDE DEF v, new
    <2> QED BY <1>1, <1>2, <1>4, <1>5 DEF Snapshot
  <1>9. \A x \in Edits : edit'[x].pc \in {"reload", "publish"} => edit'[x].window \in Windows
    <2>1. new.window \in Windows
      OBVIOUS
    <2> HIDE DEF new
    <2> QED BY <1>1, <1>2, <2>1 DEF TInv
  <1>10. contested' \subseteq Windows
    BY <1>2 DEF TInv, TypeOK
  <1> QED BY <1>7, <1>8, <1>9, <1>10 DEF Changes, TInv, TypeOK, EditState

\* The handler of an edit goes on.
LEMMA EditGoesOn ==
    ASSUME TInv, NEW e \in Edits, NEW x \in EditState, edit' = [edit EXCEPT ![e] = x],
           edit[e].pc # "idle", x.pc # "idle", x.pc \in {"reload", "publish"} => x.window \in Windows,
           contested' \subseteq Windows, db' = db
    PROVE  /\ edit' \in [Edits -> EditState] /\ contested' \subseteq Windows
           /\ \A f \in Edits : edit'[f].pc \in {"reload", "publish"} => edit'[f].window \in Windows
           /\ \A w \in Windows : db'[w] <= Cardinality(Begun') + 1
  <1>1. edit \in [Edits -> EditState]
    BY DEF TInv, TypeOK, EditState
  <1>2. edit' \in [Edits -> EditState] /\ edit'[e] = x /\ \A f \in Edits \ {e} : edit'[f] = edit[f]
    BY <1>1
  <1>3. \A f \in Edits : edit'[f].pc = "idle" <=> edit[f].pc = "idle"
    BY <1>2
  <1>4. \A f \in Edits : edit'[f].pc \in {"reload", "publish"} => edit'[f].window \in Windows
    BY <1>2 DEF TInv
  <1> QED BY <1>2, <1>3, <1>4, NoneBegins

LEMMA EditsTyped ==
    ASSUME TInv, NEW e \in Edits, ReloadWindow(e) \/ ReloadFails(e) \/ Publish(e) \/ Answer(e)
    PROVE  TInv'
  <1>1. /\ db \in [Windows -> Versions] /\ edit \in [Edits -> EditState] /\ edit[e] \in EditState
        /\ edit[e].pc \in {"reload", "publish"} => edit[e].window \in Windows
        /\ contested \subseteq Windows /\ broadcast \in Seq(Change)
    BY DEF TInv, TypeOK, Snapshot, EditState
  <1>2. [IdleEdit EXCEPT !.pc = "done"] \in EditState /\ [IdleEdit EXCEPT !.pc = "done"].pc = "done"
    BY Bounds DEF IdleEdit, EditState
  <1>3. CASE ReloadWindow(e)
    <2> DEFINE x == [edit[e] EXCEPT !.pc = "publish", !.read = db[edit[e].window]]
    <2>1. edit[e].pc = "reload" /\ edit' = [edit EXCEPT ![e] = x] /\ edit[e].window \in Windows
      BY <1>1, <1>3 DEF ReloadWindow
    <2>2. x \in EditState /\ x.pc = "publish" /\ x.window \in Windows
      BY <1>1, <2>1 DEF EditState
    <2> HIDE DEF x
    <2>3. /\ edit' \in [Edits -> EditState] /\ contested' \subseteq Windows
          /\ \A f \in Edits : edit'[f].pc \in {"reload", "publish"} => edit'[f].window \in Windows
          /\ \A w \in Windows : db'[w] <= Cardinality(Begun') + 1
      BY <1>1, <1>3, <2>1, <2>2, EditGoesOn DEF ReloadWindow
    <2> QED BY <1>3, <2>3 DEF ReloadWindow, TInv, TypeOK, EditState
  <1>4. CASE ReloadFails(e)
    <2> DEFINE x == [IdleEdit EXCEPT !.pc = "done"]
    <2>1. /\ edit[e].pc = "reload" /\ edit' = [edit EXCEPT ![e] = x] /\ edit[e].window \in Windows
          /\ contested' = contested \cup {edit[e].window}
      BY <1>1, <1>4 DEF ReloadFails
    <2> HIDE DEF x
    <2>2. /\ edit' \in [Edits -> EditState] /\ contested' \subseteq Windows
          /\ \A f \in Edits : edit'[f].pc \in {"reload", "publish"} => edit'[f].window \in Windows
          /\ \A w \in Windows : db'[w] <= Cardinality(Begun') + 1
      BY <1>1, <1>2, <1>4, <2>1, EditGoesOn DEF ReloadFails, x
    <2> QED BY <1>4, <2>2 DEF ReloadFails, TInv, TypeOK, EditState
  <1>5. CASE Publish(e)
    <2> DEFINE x == [edit[e] EXCEPT !.pc = "answer"]
               m == Changed(edit[e].window, edit[e].read)
    <2>1. /\ edit[e].pc = "publish" /\ edit' = [edit EXCEPT ![e] = x] /\ edit[e].window \in Windows
          /\ contested' \in {contested, contested \cup {edit[e].window}}
      BY <1>1, <1>5 DEF Publish
    <2>2. x \in EditState /\ x.pc = "answer"
      BY <1>1 DEF EditState
    <2>3. m \in Change
      BY <1>1, <2>1 DEF Change, Changed, EditState
    <2> HIDE DEF x, m
    <2>4. /\ edit' \in [Edits -> EditState] /\ contested' \subseteq Windows
          /\ \A f \in Edits : edit'[f].pc \in {"reload", "publish"} => edit'[f].window \in Windows
          /\ \A w \in Windows : db'[w] <= Cardinality(Begun') + 1
      BY <1>1, <1>5, <2>1, <2>2, EditGoesOn DEF Publish
    <2>5. broadcast' \in Seq(Change) /\ Len(broadcast') <= BroadcastBuffer
      <3>1. CASE broadcast' = broadcast
        BY <1>1, <3>1 DEF TInv, TypeOK
      <3>2. CASE broadcast' = Append(broadcast, m) /\ Len(broadcast) < BroadcastBuffer
        <4>1. broadcast' \in Seq(Change) /\ Len(broadcast') = Len(broadcast) + 1 /\ Len(broadcast) \in Nat
          BY <1>1, <2>3, <3>2, Appended
        <4> QED BY <3>2, <4>1, BoundsAssumption
      <3> QED BY <1>5, <3>1, <3>2 DEF Publish, m
    <2> QED BY <1>5, <2>4, <2>5 DEF Publish, TInv, TypeOK, EditState
  <1>6. CASE Answer(e)
    <2> DEFINE x == [IdleEdit EXCEPT !.pc = "done"]
    <2>1. edit[e].pc = "answer" /\ edit' = [edit EXCEPT ![e] = x]
      BY <1>6 DEF Answer
    <2> HIDE DEF x
    <2>2. /\ edit' \in [Edits -> EditState] /\ contested' \subseteq Windows
          /\ \A f \in Edits : edit'[f].pc \in {"reload", "publish"} => edit'[f].window \in Windows
          /\ \A w \in Windows : db'[w] <= Cardinality(Begun') + 1
      BY <1>1, <1>2, <1>6, <2>1, EditGoesOn DEF Answer, x
    <2>3. fetch' \in [Browsers -> [Requests -> Reader]]
      <3>1. fetch \in [Browsers -> [Requests -> Reader]]
        BY DEF TInv, TypeOK
      <3>2. CASE edit[e].by # Elsewhere /\ fetch' = [fetch EXCEPT ![edit[e].by] = Ask(@, FALSE)]
        <4>1. edit[e].by \in Browsers
          BY <1>1, <3>2 DEF EditState
        <4>2. Ask(fetch[edit[e].by], FALSE) \in [Requests -> Reader]
          BY <3>1, <4>1, Asked
        <4> QED BY <3>1, <3>2, <4>1, <4>2
      <3> QED BY <1>6, <3>1, <3>2 DEF Answer
    <2> QED BY <1>6, <2>2, <2>3 DEF Answer, TInv, TypeOK, EditState
  <1> QED BY <1>3, <1>4, <1>5, <1>6

\* A step that leaves the edits and the versions alone.
LEMMA ConnectionsTyped ==
    ASSUME TInv, UNCHANGED <<env, db, edit, contested>>,
           broadcast' \in Seq(Change), Len(broadcast') <= BroadcastBuffer,
           feed' \in [Browsers -> Seq(Message)], \A b \in Browsers : Len(feed'[b]) <= SendBuffer,
           registered' \subseteq Browsers, greeting' \in [Browsers -> Reader],
           socket' \in [Browsers -> {"closed", "connecting", "open"}],
           connects' \in [Browsers -> 1 .. env.maxConnects],
           fetch' \in [Browsers -> [Requests -> Reader]], view' \in [Browsers -> Snapshot],
           greeted' \in [Browsers -> BOOLEAN], outdated' \in [Browsers -> SUBSET Windows]
    PROVE  TInv'
  <1>1. \A w \in Windows : db'[w] <= Cardinality(Begun') + 1
    BY NoneBegins
  <1> QED BY <1>1 DEF TInv, TypeOK

\* What holds of the variables of connections and browsers.
LEMMA TypesNow ==
    ASSUME TInv
    PROVE  /\ broadcast \in Seq(Change) /\ Len(broadcast) <= BroadcastBuffer
           /\ feed \in [Browsers -> Seq(Message)] /\ \A b \in Browsers : Len(feed[b]) <= SendBuffer
           /\ registered \subseteq Browsers /\ greeting \in [Browsers -> Reader]
           /\ socket \in [Browsers -> {"closed", "connecting", "open"}]
           /\ connects \in [Browsers -> 1 .. env.maxConnects]
           /\ fetch \in [Browsers -> [Requests -> Reader]] /\ view \in [Browsers -> Snapshot]
           /\ greeted \in [Browsers -> BOOLEAN] /\ outdated \in [Browsers -> SUBSET Windows]
  BY DEF TInv, TypeOK

LEMMA FanOutTyped == ASSUME TInv, FanOut PROVE TInv'
  <1> DEFINE full == {b \in registered : Len(feed[b]) >= SendBuffer}
             m == Head(broadcast)
  <1>1. /\ broadcast # <<>> /\ broadcast' = Tail(broadcast) /\ registered' = registered \ full
        /\ feed' = [b \in Browsers |-> IF b \in registered \ full THEN Append(feed[b], m) ELSE feed[b]]
    BY DEF FanOut
  <1>2. /\ m \in Change /\ m \in Message /\ broadcast' \in Seq(Change) /\ Len(broadcast') <= BroadcastBuffer
    <2>1. /\ Head(broadcast) \in Change /\ Tail(broadcast) \in Seq(Change)
          /\ Len(Tail(broadcast)) = Len(broadcast) - 1 /\ Len(broadcast) \in Nat
      BY <1>1, TailIs, TypesNow
    <2>2. Len(broadcast) <= BroadcastBuffer
      BY TypesNow
    <2> QED BY <1>1, <2>1, <2>2, BoundsAssumption DEF Message
  <1>3. \A b \in registered \ full : Len(feed[b]) < SendBuffer
    <2>1. \A b \in registered : Len(feed[b]) \in Nat
      BY TypesNow
    <2> QED BY <2>1, BoundsAssumption
  <1> HIDE DEF full, m
  <1>4. ASSUME NEW b \in Browsers PROVE feed'[b] \in Seq(Message) /\ Len(feed'[b]) <= SendBuffer
    <2>1. feed[b] \in Seq(Message) /\ Len(feed[b]) <= SendBuffer
      BY TypesNow
    <2>2. CASE b \in registered \ full
      <3>1. /\ Append(feed[b], m) \in Seq(Message) /\ Len(Append(feed[b], m)) = Len(feed[b]) + 1
            /\ Len(feed[b]) \in Nat
        BY <1>2, <2>1, Appended
      <3>2. Len(feed[b]) < SendBuffer
        BY <1>3, <2>2
      <3> QED BY <1>1, <2>2, <3>1, <3>2, BoundsAssumption
    <2>3. CASE b \notin registered \ full
      BY <1>1, <2>1, <2>3
    <2> QED BY <2>2, <2>3
  <1>5. feed' \in [Browsers -> Seq(Message)] /\ \A b \in Browsers : Len(feed'[b]) <= SendBuffer
    BY <1>1, <1>4
  <1>6. registered' \subseteq Browsers
    BY <1>1, TypesNow
  <1>7. UNCHANGED <<env, db, edit, contested, greeting, socket, connects, fetch, view, greeted, outdated>>
    BY DEF FanOut
  <1> QED BY <1>2, <1>5, <1>6, <1>7, TypesNow, ConnectionsTyped

LEMMA GreetingsTyped ==
    ASSUME TInv, NEW b \in Browsers, Register(b) \/ Greet(b) \/ GreetFails(b) PROVE TInv'
  <1>1. greeting \in [Browsers -> Reader] /\ greeting[b] \in Reader /\ registered \subseteq Browsers
    BY TypesNow
  <1>2. /\ registered' \subseteq Browsers
        /\ UNCHANGED <<env, db, edit, contested, broadcast, feed, socket, connects, fetch, view, greeted, outdated>>
    BY <1>1 DEF Register, Greet, GreetFails
  <1>3. greeting' \in [Browsers -> Reader]
    <2>1. CASE Register(b)
      <3>1. [greeting[b] EXCEPT !.pc = "windows"] \in Reader
        BY <1>1 DEF Reader
      <3> QED BY <1>1, <2>1, <3>1 DEF Register
    <2>2. CASE Greet(b)
      <3>1. ReadSnapshot(greeting[b]) \in Reader
        BY <1>1, SnapshotRead DEF TInv
      <3> QED BY <1>1, <2>2, <3>1 DEF Greet
    <2>3. CASE GreetFails(b)
      BY <1>1, <2>3, Readers DEF GreetFails
    <2> QED BY <2>1, <2>2, <2>3
  <1> QED BY <1>2, <1>3, TypesNow, ConnectionsTyped

LEMMA QueueHelloTyped == ASSUME TInv, NEW b \in Browsers, QueueHello(b) PROVE TInv'
  <1> DEFINE m == Hello(greeting[b].read)
             f == IF b \in registered /\ Len(feed[b]) < SendBuffer THEN Append(feed[b], m) ELSE feed[b]
  <1>1. greeting \in [Browsers -> Reader] /\ greeting[b] \in Reader /\ feed[b] \in Seq(Message) /\ Len(feed[b]) <= SendBuffer
    BY TypesNow
  <1>2. m \in Message
    BY <1>1 DEF Reader, Message, Greeting, Hello
  <1>3. feed' = [feed EXCEPT ![b] = f] /\ greeting' = [greeting EXCEPT ![b] = IdleReader]
    BY DEF QueueHello
  <1> HIDE DEF m
  <1>4. f \in Seq(Message) /\ Len(f) <= SendBuffer
    <2>1. /\ Append(feed[b], m) \in Seq(Message) /\ Len(Append(feed[b], m)) = Len(feed[b]) + 1
          /\ Len(feed[b]) \in Nat
      BY <1>1, <1>2, Appended
    <2> QED BY <1>1, <2>1, BoundsAssumption
  <1> HIDE DEF f
  <1>5. feed' \in [Browsers -> Seq(Message)] /\ \A c \in Browsers : Len(feed'[c]) <= SendBuffer
    BY <1>3, <1>4, TypesNow
  <1>6. greeting' \in [Browsers -> Reader]
    BY <1>1, <1>3, Readers
  <1>7. UNCHANGED <<env, db, edit, contested, broadcast, registered, socket, connects, fetch, view, greeted, outdated>>
    BY DEF QueueHello
  <1> QED BY <1>5, <1>6, <1>7, TypesNow, ConnectionsTyped

\* What a browser shows is a snapshot.
LEMMA ViewsTyped ==
    ASSUME TInv, NEW b \in Browsers,
           \/ \E s \in Snapshot : ApplySnapshot(b, s)
           \/ \E w \in Windows, v \in Versions : UpsertWindow(b, w, v)
    PROVE  view' \in [Browsers -> Snapshot] /\ outdated' \in [Browsers -> SUBSET Windows]
  <1>1. view \in [Browsers -> Snapshot] /\ outdated \in [Browsers -> SUBSET Windows]
    BY TypesNow
  <1>2. ASSUME NEW s \in Snapshot, ApplySnapshot(b, s)
        PROVE  view' \in [Browsers -> Snapshot] /\ outdated' \in [Browsers -> SUBSET Windows]
    <2>1. {w \in Windows : s[w] # db[w]} \in SUBSET Windows
      OBVIOUS
    <2>2. view' \in [Browsers -> Snapshot]
      BY <1>1, <1>2 DEF ApplySnapshot
    <2>3. outdated' \in [Browsers -> SUBSET Windows]
      BY <1>1, <1>2, <2>1 DEF ApplySnapshot
    <2> QED BY <2>2, <2>3
  <1>3. ASSUME NEW w \in Windows, NEW v \in Versions, UpsertWindow(b, w, v)
        PROVE  view' \in [Browsers -> Snapshot] /\ outdated' \in [Browsers -> SUBSET Windows]
    <2>1. [view[b] EXCEPT ![w] = v] \in Snapshot
      BY <1>1 DEF Snapshot
    <2>2. view' = [view EXCEPT ![b] = [view[b] EXCEPT ![w] = v]]
      BY <1>1, <1>3 DEF UpsertWindow
    <2>3. view' \in [Browsers -> Snapshot]
      BY <1>1, <2>1, <2>2
    <2>4. outdated[b] \ {w} \in SUBSET Windows
      BY <1>1
    <2>5. outdated' \in [Browsers -> SUBSET Windows]
      BY <1>1, <1>3, <2>4 DEF UpsertWindow
    <2> QED BY <2>3, <2>5
  <1> QED BY <1>2, <1>3

LEMMA HandleEventTyped == ASSUME TInv, NEW b \in Browsers, HandleEvent(b) PROVE TInv'
  <1> DEFINE m == Head(feed[b])
  <1>1. /\ feed[b] \in Seq(Message) /\ feed[b] # <<>> /\ Len(feed[b]) <= SendBuffer
        /\ greeted \in [Browsers -> BOOLEAN] /\ feed \in [Browsers -> Seq(Message)]
    BY TypesNow DEF HandleEvent
  <1>2. /\ m \in Message /\ Tail(feed[b]) \in Seq(Message) /\ Len(Tail(feed[b])) <= SendBuffer
    <2>1. /\ m \in Message /\ Tail(feed[b]) \in Seq(Message)
          /\ Len(Tail(feed[b])) = Len(feed[b]) - 1 /\ Len(feed[b]) \in Nat
      BY <1>1, TailIs
    <2> QED BY <1>1, <2>1, BoundsAssumption
  <1>3. /\ feed' = [feed EXCEPT ![b] = Tail(feed[b])]
        /\ greeted' \in {greeted, [greeted EXCEPT ![b] = TRUE]}
        /\ \/ m.type = "HELLO" /\ ApplySnapshot(b, m.read)
           \/ m.type = "PLAYLIST_UPDATED" /\ UpsertWindow(b, m.window, m.version)
        /\ UNCHANGED <<env, db, edit, contested, broadcast, registered, greeting, socket, connects, fetch>>
    BY DEF HandleEvent
  <1> HIDE DEF m
  <1>4. /\ m.type = "HELLO" => m.read \in Snapshot
        /\ m.type = "PLAYLIST_UPDATED" => m.window \in Windows /\ m.version \in Versions
    <2> HIDE DEF Snapshot, Versions
    <2> QED BY <1>2 DEF Message, Change, Greeting
  <1>5. view' \in [Browsers -> Snapshot] /\ outdated' \in [Browsers -> SUBSET Windows]
    BY <1>3, <1>4, ViewsTyped
  <1>6. feed' \in [Browsers -> Seq(Message)] /\ \A c \in Browsers : Len(feed'[c]) <= SendBuffer
    BY <1>1, <1>2, <1>3, TypesNow
  <1>7. greeted' \in [Browsers -> BOOLEAN]
    BY <1>1, <1>3
  <1> QED BY <1>3, <1>5, <1>6, <1>7, TypesNow, ConnectionsTyped

LEMMA FetchesTyped ==
    ASSUME TInv, NEW b \in Browsers, NEW i \in Requests, FetchStep(b, i) PROVE TInv'
  <1>1. fetch \in [Browsers -> [Requests -> Reader]] /\ fetch[b] \in [Requests -> Reader] /\ fetch[b][i] \in Reader
    BY TypesNow
  <1>2. PICK x \in Reader : fetch' = [fetch EXCEPT ![b][i] = x]
    BY <1>1, Readers, SnapshotRead DEF FetchStep, ReadFetch, ApplyFetch, FetchFails, TInv
  <1>3. fetch' \in [Browsers -> [Requests -> Reader]]
    <2>1. [fetch[b] EXCEPT ![i] = x] \in [Requests -> Reader]
      BY <1>1
    <2>2. fetch' = [fetch EXCEPT ![b] = [fetch[b] EXCEPT ![i] = x]]
      BY <1>1, <1>2
    <2> QED BY <1>1, <2>1, <2>2
  <1>4. fetch[b][i].read \in Snapshot
    BY <1>1 DEF Reader
  <1>5. view' \in [Browsers -> Snapshot] /\ outdated' \in [Browsers -> SUBSET Windows]
    <2>1. CASE UNCHANGED <<view, outdated>>
      BY <2>1, TypesNow
    <2>2. CASE ApplySnapshot(b, fetch[b][i].read)
      BY <1>4, <2>2, ViewsTyped
    <2> QED BY <2>1, <2>2 DEF FetchStep, ReadFetch, ApplyFetch, FetchFails
  <1>6. UNCHANGED <<env, db, edit, contested, broadcast, registered, greeting, feed, socket, connects, greeted>>
    BY DEF FetchStep, ReadFetch, ApplyFetch, FetchFails
  <1> QED BY <1>3, <1>5, <1>6, TypesNow, ConnectionsTyped

LEMMA SocketsTyped ==
    ASSUME TInv, NEW b \in Browsers, OpenSocket(b) \/ Poll(b) \/ Disconnect(b) \/ Connect(b) PROVE TInv'
  <1>1. /\ fetch \in [Browsers -> [Requests -> Reader]] /\ fetch[b] \in [Requests -> Reader]
        /\ socket \in [Browsers -> {"closed", "connecting", "open"}]
        /\ feed \in [Browsers -> Seq(Message)] /\ \A c \in Browsers : Len(feed[c]) <= SendBuffer
        /\ greeting \in [Browsers -> Reader] /\ registered \subseteq Browsers
        /\ connects \in [Browsers -> 1 .. env.maxConnects] /\ greeted \in [Browsers -> BOOLEAN]
    BY TypesNow
  <1>2. CASE OpenSocket(b)
    <2> DEFINE kept == [i \in Requests |-> IF fetch[b][i].poll THEN IdleReader ELSE fetch[b][i]]
    <2>1. kept \in [Requests -> Reader]
      BY <1>1, Readers
    <2>2. fetch' = [fetch EXCEPT ![b] = Ask(kept, FALSE)] /\ socket' = [socket EXCEPT ![b] = "open"]
      BY <1>2 DEF OpenSocket
    <2> HIDE DEF kept
    <2>3. fetch' \in [Browsers -> [Requests -> Reader]] /\ socket' \in [Browsers -> {"closed", "connecting", "open"}]
      BY <1>1, <2>1, <2>2, Asked
    <2> QED BY <1>2, <2>3, TypesNow, ConnectionsTyped DEF OpenSocket
  <1>3. CASE Poll(b)
    <2>1. fetch' \in [Browsers -> [Requests -> Reader]]
      BY <1>1, <1>3, Asked DEF Poll
    <2> QED BY <1>3, <2>1, TypesNow, ConnectionsTyped DEF Poll
  <1>4. CASE Disconnect(b)
    <2>1. /\ socket' \in [Browsers -> {"closed", "connecting", "open"}] /\ registered' \subseteq Browsers
          /\ greeted' \in [Browsers -> BOOLEAN]
      BY <1>1, <1>4 DEF Disconnect
    <2>2. greeting' \in [Browsers -> Reader]
      BY <1>1, <1>4, Readers DEF Disconnect
    <2>3. feed' \in [Browsers -> Seq(Message)] /\ \A c \in Browsers : Len(feed'[c]) <= SendBuffer
      <3>1. <<>> \in Seq(Message) /\ Len(<<>>) = 0
        OBVIOUS
      <3>2. feed' = [feed EXCEPT ![b] = <<>>]
        BY <1>4 DEF Disconnect
      <3> QED BY <1>1, <3>1, <3>2, BoundsAssumption
    <2> QED BY <1>4, <2>1, <2>2, <2>3, TypesNow, ConnectionsTyped DEF Disconnect
  <1>5. CASE Connect(b)
    <2>1. socket' \in [Browsers -> {"closed", "connecting", "open"}]
      BY <1>1, <1>5 DEF Connect
    <2>2. greeting' \in [Browsers -> Reader]
      BY <1>1, <1>5, Readers DEF Connect
    <2>3. connects' \in [Browsers -> 1 .. env.maxConnects]
      <3>1. connects[b] \in 1 .. env.maxConnects /\ connects[b] < env.maxConnects /\ env.maxConnects \in Nat
        BY <1>1, <1>5, EnvironmentFacts DEF Connect, TInv
      <3>2. connects[b] + 1 \in 1 .. env.maxConnects
        BY <3>1
      <3> QED BY <1>1, <1>5, <3>2 DEF Connect
    <2> QED BY <1>5, <2>1, <2>2, <2>3, TypesNow, ConnectionsTyped DEF Connect
  <1> QED BY <1>2, <1>3, <1>4, <1>5

LEMMA TypesInductive == TInv /\ [Next]_vars => TInv'
  <1> SUFFICES ASSUME TInv, [Next]_vars PROVE TInv'
    OBVIOUS
  <1>1. ASSUME NEW e \in env.edits, EditStep(e) PROVE TInv'
    <2>1. e \in Edits /\ env.windows \subseteq Windows
      BY EnvironmentFacts DEF TInv
    <2>2. ASSUME NEW w \in env.windows, NEW by \in Browsers \cup {Elsewhere},
                 CommitEdit(e, w, by) \/ CreateWindow(e, w, by)
          PROVE  TInv'
      BY <2>1, <2>2, ChangesTyped DEF CommitEdit, CreateWindow
    <2> QED BY <1>1, <2>1, <2>2, EditsTyped DEF EditStep
  <1>2. CASE FanOut
    BY <1>2, FanOutTyped
  <1>3. ASSUME NEW b \in Browsers, ConnectionStep(b) PROVE TInv'
    BY <1>3, GreetingsTyped, QueueHelloTyped DEF ConnectionStep
  <1>4. ASSUME NEW b \in Browsers, BrowserStep(b) PROVE TInv'
    BY <1>4, HandleEventTyped, SocketsTyped DEF BrowserStep
  <1>5. ASSUME NEW b \in Browsers, NEW i \in Requests, FetchStep(b, i) PROVE TInv'
    BY <1>5, FetchesTyped
  <1>6. CASE UNCHANGED vars
    BY <1>6, TypesNow, ConnectionsTyped DEF vars
  <1> QED BY <1>1, <1>2, <1>3, <1>4, <1>5, <1>6 DEF Next

LEMMA TypesInitially == Init => TInv
  <1> SUFFICES ASSUME Init PROVE TInv
    OBVIOUS
  <1>1. Nothing \in Snapshot /\ db \in Snapshot
    BY Bounds DEF Init, Nothing, Snapshot
  <1>2. edit \in [Edits -> EditState] /\ \A e \in Edits : edit[e].pc = "idle"
    BY Bounds DEF Init, EditState, IdleEdit
  <1>3. \A w \in Windows : db[w] <= Cardinality(Begun) + 1
    <2>1. Begun = {}
      BY <1>2 DEF Begun
    <2>2. Cardinality(Begun) = 0
      BY <2>1, FS_EmptySet
    <2>3. \A w \in Windows : db[w] \in {0, 1}
      BY DEF Init
    <2> QED BY <2>2, <2>3
  <1>4. greeting \in [Browsers -> Reader] /\ fetch \in [Browsers -> [Requests -> Reader]]
    BY Readers DEF Init
  <1>5. connects \in [Browsers -> 1 .. env.maxConnects]
    BY EnvironmentFacts DEF Init
  <1>6. /\ broadcast \in Seq(Change) /\ feed \in [Browsers -> Seq(Message)]
        /\ Len(broadcast) <= BroadcastBuffer /\ \A b \in Browsers : Len(feed[b]) <= SendBuffer
    BY BoundsAssumption DEF Init
  <1>7. view \in [Browsers -> Snapshot] /\ outdated \in [Browsers -> SUBSET Windows]
    BY <1>1 DEF Init
  <1> QED BY <1>1, <1>2, <1>3, <1>4, <1>5, <1>6, <1>7 DEF Init, TInv, TypeOK, EditState

LEMMA TypesAlways == Spec => []TInv
  BY TypesInitially, TypesInductive, PTL DEF Spec

\* No queue outgrows its buffer, no connection or request is lost track of, and
\* no edit leaves the handlers' stages, with any number of them.
THEOREM TypesHold == Spec => []TypeOK
  <1>1. TInv => TypeOK
    BY DEF TInv
  <1> QED BY TypesAlways, <1>1, PTL

-----------------------------------------------------------------------------
(* Changes are delivered.                                                  *)

\* A step that leaves the edits and the versions alone.
LEMMA ConnectionsDeliver ==
    ASSUME DInv, UNCHANGED <<db, edit, contested>>, Links',
           \A w : Newest(broadcast, w, db[w]) => Newest(broadcast', w, db[w]),
           \A w \in Windows, b \in registered' :
              News(broadcast', w) = {} /\ Newest(broadcast, w, db[w])
                /\ (b \in registered /\ News(broadcast, w) = {} => OnWay(b, w)) => OnWay(b, w)'
    PROVE  DInv'
  <1>1. \A w : Publishing(w)' = Publishing(w)
    BY DEF Publishing
  <1>2. Announces'
    BY <1>1 DEF DInv, Announces
  <1>3. Delivers'
    BY <1>1 DEF DInv, Delivers
  <1> QED BY <1>2, <1>3 DEF DInv

\* A step that changes the edits of window w only.
LEMMA OtherWindows ==
    ASSUME DInv, NEW w, UNCHANGED <<registered, greeting, feed, socket, view, greeted, outdated>>,
           \A x \in Windows \ {w} : /\ Publishing(x)' = Publishing(x) /\ db'[x] = db[x]
                                    /\ x \in contested' <=> x \in contested
                                    /\ News(broadcast', x) = News(broadcast, x)
                                    /\ Newest(broadcast, x, db[x]) => Newest(broadcast', x, db[x])
                                    /\ \A e \in Publishing(x) : edit'[e] = edit[e],
           w \in Windows \ contested' =>
              /\ \A e \in Publishing(w)' : Publishing(w)' = {e} /\ (edit'[e].pc = "publish" => edit'[e].read = db'[w])
              /\ Publishing(w)' = {} => Newest(broadcast', w, db'[w]) /\ News(broadcast', w) # {}
    PROVE  DInv'
  <1>1. Links'
    BY DEF DInv, Links, Unlinked
  <1>2. Announces'
    BY DEF DInv, Announces
  <1>3. \A x \in Windows \ {w} : \A b : OnWay(b, x)' <=> OnWay(b, x)
    BY DEF OnWay
  <1>4. Delivers'
    BY <1>3 DEF DInv, Delivers
  <1> QED BY <1>1, <1>2, <1>4 DEF DInv

LEMMA ChangesDeliver ==
    ASSUME TInv, DInv, NEW e \in Edits, NEW w \in Windows, NEW by, NEW step \in {"reload", "publish"},
           edit[e].pc = "idle", Changes(e, w, by, step, Publishing(w))
    PROVE  DInv'
  <1> DEFINE new == [pc |-> step, by |-> by, window |-> w, read |-> db[w] + 1]
  <1>1. /\ edit' = [edit EXCEPT ![e] = new] /\ db' = [db EXCEPT ![w] = db[w] + 1]
        /\ contested' = IF Publishing(w) = {} THEN contested \ {w} ELSE contested \cup {w}
        /\ UNCHANGED <<broadcast, registered, greeting, feed, socket, view, greeted, outdated>>
        /\ DOMAIN edit = Edits /\ DOMAIN db = Windows
    BY DEF Changes, TInv, TypeOK, Snapshot
  <1>2. new.pc = step /\ new.window = w /\ new.read = db[w] + 1
    OBVIOUS
  <1> HIDE DEF new
  <1>3. edit'[e] = new /\ \A f \in Edits \ {e} : edit'[f] = edit[f]
    BY <1>1
  <1>4. \A x : Publishing(x) \subseteq Edits \ {e}
    BY DEF Publishing
  <1>5. ASSUME NEW x \in Windows \ {w} PROVE Publishing(x)' = Publishing(x)
    BY <1>2, <1>3, <1>5 DEF Publishing
  <1>6. Publishing(w)' = Publishing(w) \cup {e}
    BY <1>2, <1>3 DEF Publishing
  <1>7. w \notin contested' => Publishing(w) = {}
    BY <1>1
  <1>8. \A x \in Windows \ {w} : /\ Publishing(x)' = Publishing(x) /\ db'[x] = db[x]
                                 /\ x \in contested' <=> x \in contested
                                 /\ News(broadcast', x) = News(broadcast, x)
                                 /\ Newest(broadcast, x, db[x]) => Newest(broadcast', x, db[x])
                                 /\ \A f \in Publishing(x) : edit'[f] = edit[f]
    BY <1>1, <1>3, <1>4, <1>5
  <1>9. w \in Windows \ contested' =>
              /\ \A f \in Publishing(w)' : Publishing(w)' = {f} /\ (edit'[f].pc = "publish" => edit'[f].read = db'[w])
              /\ Publishing(w)' = {} => Newest(broadcast', w, db'[w]) /\ News(broadcast', w) # {}
    BY <1>1, <1>2, <1>3, <1>6, <1>7
  <1> QED BY <1>1, <1>8, <1>9, OtherWindows

LEMMA EditsDeliver ==
    ASSUME TInv, DInv, NEW e \in Edits, ReloadWindow(e) \/ ReloadFails(e) \/ Publish(e) \/ Answer(e)
    PROVE  DInv'
  <1>0. PICK w : w = edit[e].window
    OBVIOUS
  <1>1. /\ DOMAIN edit = Edits /\ edit[e] \in EditState /\ broadcast \in Seq(Change)
        /\ UNCHANGED <<db, registered, greeting, feed, socket, view, greeted, outdated>>
    BY DEF ReloadWindow, ReloadFails, Publish, Answer, TInv, TypeOK, EditState
  <1>2. edit[e].pc \in {"reload", "publish"} => w \in Windows /\ e \in Publishing(w)
    BY <1>0 DEF TInv, Publishing
  <1>3. ASSUME NEW x, edit' = [edit EXCEPT ![e] = x]
        PROVE  /\ edit'[e] = x /\ \A f \in Edits \ {e} : edit'[f] = edit[f]
               /\ \A v : v # w /\ (x.pc \in {"reload", "publish"} => x.window = w) => Publishing(v)' = Publishing(v) /\ e \notin Publishing(v)
    <2>1. edit'[e] = x /\ \A f \in Edits \ {e} : edit'[f] = edit[f]
      BY <1>1, <1>3
    <2> QED BY <1>0, <2>1 DEF Publishing
  <1>4. CASE ReloadWindow(e)
    <2> DEFINE x == [edit[e] EXCEPT !.pc = "publish", !.read = db[w]]
    <2>1. edit[e].pc = "reload" /\ edit' = [edit EXCEPT ![e] = x] /\ UNCHANGED <<broadcast, contested>>
      BY <1>0, <1>1, <1>4 DEF ReloadWindow
    <2>2. x.pc = "publish" /\ x.window = w /\ x.read = db[w]
      BY <1>0, <1>1 DEF EditState
    <2> HIDE DEF x
    <2>3. /\ edit'[e] = x /\ \A f \in Edits \ {e} : edit'[f] = edit[f]
          /\ \A v : v # w => Publishing(v)' = Publishing(v) /\ e \notin Publishing(v)
      BY <1>3, <2>1, <2>2
    <2>4. Publishing(w)' = Publishing(w) /\ e \in Publishing(w) /\ \A v : Publishing(v) \subseteq Edits
      BY <2>1, <2>2, <2>3 DEF Publishing
    <2>5. w \notin contested => Publishing(w) = {e}
      BY <1>2, <2>1 DEF DInv, Announces
    <2>6. \A v \in Windows \ {w} : \A f \in Publishing(v) : edit'[f] = edit[f]
      BY <2>3, <2>4
    <2> QED BY <1>1, <2>1, <2>2, <2>3, <2>4, <2>5, <2>6, OtherWindows
  <1>5. CASE ReloadFails(e)
    <2> DEFINE x == [IdleEdit EXCEPT !.pc = "done"]
    <2>1. /\ edit' = [edit EXCEPT ![e] = x] /\ contested' = contested \cup {w} /\ UNCHANGED broadcast
      BY <1>0, <1>5 DEF ReloadFails
    <2>2. x.pc = "done"
      BY DEF IdleEdit
    <2> HIDE DEF x
    <2>3. /\ edit'[e] = x /\ \A f \in Edits \ {e} : edit'[f] = edit[f]
          /\ \A v : v # w => Publishing(v)' = Publishing(v) /\ e \notin Publishing(v)
      BY <1>3, <2>1, <2>2
    <2>4. \A v \in Windows \ {w} : \A f \in Publishing(v) : edit'[f] = edit[f]
      BY <2>3 DEF Publishing
    <2> QED BY <1>1, <2>1, <2>3, <2>4, OtherWindows
  <1>6. CASE Publish(e)
    <2> DEFINE x == [edit[e] EXCEPT !.pc = "answer"]
               m == Changed(w, edit[e].read)
    <2>1. /\ edit[e].pc = "publish" /\ edit' = [edit EXCEPT ![e] = x]
          /\ \/ broadcast' = Append(broadcast, m) /\ contested' = contested
             \/ broadcast' = broadcast /\ contested' = contested \cup {w}
      BY <1>0, <1>1, <1>6 DEF Publish
    <2>2. x.pc = "answer"
      BY <1>1 DEF EditState
    <2>3. m \in Change /\ m.type = "PLAYLIST_UPDATED" /\ m.window = w /\ m.version = edit[e].read
      BY <1>1, <1>2, <2>1 DEF Change, Changed, EditState
    <2> HIDE DEF x, m
    <2>4. /\ edit'[e] = x /\ \A f \in Edits \ {e} : edit'[f] = edit[f]
          /\ \A v : v # w => Publishing(v)' = Publishing(v) /\ e \notin Publishing(v)
      BY <1>3, <2>1, <2>2
    <2>5. \A v \in Windows \ {w} : \A f \in Publishing(v) : edit'[f] = edit[f]
      BY <2>4 DEF Publishing
    <2>6. \A v \in Windows \ {w} : /\ News(broadcast', v) = News(broadcast, v)
                                   /\ Newest(broadcast, v, db[v]) => Newest(broadcast', v, db[v])
      <3> SUFFICES ASSUME NEW v \in Windows \ {w}
                   PROVE  /\ News(broadcast', v) = News(broadcast, v)
                          /\ Newest(broadcast, v, db[v]) => Newest(broadcast', v, db[v])
        OBVIOUS
      <3>1. CASE broadcast' = broadcast
        BY <3>1
      <3>2. CASE broadcast' = Append(broadcast, m)
        <4>1. ~ (m.type = "PLAYLIST_UPDATED" /\ m.window = v)
          BY <2>3
        <4> QED BY <1>1, <2>3, <3>2, <4>1, NewsAppended
      <3> QED BY <2>1, <3>1, <3>2
    <2>7. w \in Windows \ contested' =>
             /\ \A f \in Publishing(w)' : Publishing(w)' = {f} /\ (edit'[f].pc = "publish" => edit'[f].read = db'[w])
             /\ Publishing(w)' = {} => Newest(broadcast', w, db'[w]) /\ News(broadcast', w) # {}
      <3> SUFFICES ASSUME w \in Windows \ contested'
                   PROVE  Publishing(w)' = {} /\ Newest(broadcast', w, db'[w]) /\ News(broadcast', w) # {}
        OBVIOUS
      <3>1. broadcast' = Append(broadcast, m) /\ w \notin contested
        BY <2>1
      <3>2. Publishing(w) = {e} /\ edit[e].read = db[w]
        BY <1>2, <2>1, <3>1 DEF DInv, Announces
      <3>3. Publishing(w)' = {}
        <4> SUFFICES ASSUME NEW f \in Publishing(w)' PROVE FALSE
          OBVIOUS
        <4>1. f \in Edits /\ edit'[f].window = w /\ edit'[f].pc \in {"reload", "publish"}
          BY DEF Publishing
        <4>2. f # e
          BY <2>2, <2>4, <4>1
        <4>3. f \in Publishing(w)
          BY <2>4, <4>1, <4>2 DEF Publishing
        <4> QED BY <3>2, <4>2, <4>3
      <3> QED BY <1>1, <2>3, <3>1, <3>2, <3>3, NewsAppended
    <2>8. \A v \in Windows \ {w} : v \in contested' <=> v \in contested
      BY <2>1
    <2> QED BY <1>1, <2>4, <2>5, <2>6, <2>7, <2>8, OtherWindows
  <1>7. CASE Answer(e)
    <2> DEFINE x == [IdleEdit EXCEPT !.pc = "done"]
    <2>1. edit[e].pc = "answer" /\ edit' = [edit EXCEPT ![e] = x] /\ UNCHANGED <<contested, broadcast>>
      BY <1>7 DEF Answer
    <2>2. x.pc = "done"
      BY DEF IdleEdit
    <2> HIDE DEF x
    <2>3. edit'[e] = x /\ \A f \in Edits \ {e} : edit'[f] = edit[f]
      BY <1>3, <2>1
    <2>4. \A v : Publishing(v)' = Publishing(v) /\ \A f \in Publishing(v) : edit'[f] = edit[f]
      BY <2>1, <2>2, <2>3 DEF Publishing
    <2>5. Links' /\ Announces'
      BY <1>1, <2>1, <2>4 DEF DInv, Links, Unlinked, Announces
    <2>6. \A b, v : OnWay(b, v)' <=> OnWay(b, v)
      BY <1>1 DEF OnWay
    <2>7. Delivers'
      BY <1>1, <2>1, <2>4, <2>6 DEF DInv, Delivers
    <2> QED BY <2>5, <2>7 DEF DInv
  <1> QED BY <1>4, <1>5, <1>6, <1>7

LEMMA FanOutDelivers == ASSUME TInv, DInv, FanOut PROVE DInv'
  <1> DEFINE full == {b \in registered : Len(feed[b]) >= SendBuffer}
  <1>0. PICK m : m = Head(broadcast)
    OBVIOUS
  <1>1. /\ broadcast # <<>> /\ broadcast' = Tail(broadcast) /\ registered' = registered \ full
        /\ feed' = [b \in Browsers |-> IF b \in registered \ full THEN Append(feed[b], m) ELSE feed[b]]
        /\ UNCHANGED <<db, edit, contested, greeting, socket, view, greeted, outdated>>
    BY <1>0 DEF FanOut
  <1>2. /\ broadcast \in Seq(Change) /\ m \in Message /\ registered \subseteq Browsers
        /\ \A b \in Browsers : feed[b] \in Seq(Message)
    <2>1. broadcast \in Seq(Change) /\ registered \subseteq Browsers /\ feed \in [Browsers -> Seq(Message)]
      BY TypesNow
    <2>2. m \in Change
      BY <1>0, <1>1, <2>1, TailIs
    <2> QED BY <2>1, <2>2 DEF Message
  <1> HIDE DEF full
  <1>3. Links'
    BY <1>1 DEF DInv, Links, Unlinked
  <1>4. \A w : Newest(broadcast, w, db[w]) => Newest(broadcast', w, db[w])
    BY <1>1, <1>2, NewsTail
  <1>5. ASSUME NEW w \in Windows, NEW b \in registered', News(broadcast', w) = {}, Newest(broadcast, w, db[w]),
               News(broadcast, w) = {} => OnWay(b, w)
        PROVE  OnWay(b, w)'
    <2>1. b \in Browsers /\ feed'[b] = Append(feed[b], m) /\ feed[b] \in Seq(Message)
      BY <1>1, <1>2
    <2>2. CASE m.type = "PLAYLIST_UPDATED" /\ m.window = w
      <3>1. m.version = db[w]
        BY <1>0, <1>1, <1>2, <1>5, <2>2, NewsTail
      <3>2. News(Append(feed[b], m), w) # {} /\ Newest(Append(feed[b], m), w, m.version)
        BY <1>2, <2>1, <2>2, NewsAppended
      <3>3. News(feed'[b], w) # {} /\ Newest(feed'[b], w, db[w])
        BY <2>1, <3>1, <3>2
      <3> QED BY <1>1, <3>3 DEF OnWay
    <2>3. CASE ~ (m.type = "PLAYLIST_UPDATED" /\ m.window = w)
      <3>1. News(broadcast, w) = {}
        BY <1>0, <1>1, <1>2, <1>5, <2>3, NewsTail
      <3>2. OnWay(b, w)
        BY <1>5, <3>1
      <3>3. News(feed'[b], w) = News(feed[b], w)
        BY <1>2, <2>1, <2>3, NewsAppended
      <3>4. Newest(feed'[b], w, db[w])
        BY <1>2, <2>1, <2>3, <3>2, NewsAppended DEF OnWay
      <3> QED BY <1>1, <3>2, <3>3, <3>4 DEF OnWay
    <2> QED BY <2>2, <2>3
  <1>6. registered' \subseteq registered
    BY <1>1
  <1> QED BY <1>1, <1>3, <1>4, <1>5, <1>6, ConnectionsDeliver

\* A step that leaves the hub's queue alone too.
LEMMA BrowserDelivers ==
    ASSUME DInv, UNCHANGED <<db, edit, contested, broadcast>>, Links',
           \A w \in Windows, b \in registered' :
              News(broadcast, w) = {} /\ (b \in registered => OnWay(b, w)) => OnWay(b, w)'
    PROVE  DInv'
  BY ConnectionsDeliver

\* A queue without changes of w, and a screen that nobody greeted.
LEMMA NothingOnWay ==
    ASSUME NEW b, NEW w, feed[b] = <<>>, ~ greeted[b] PROVE OnWay(b, w)
  <1>1. News(<<>>, w) = {}
    BY DEF News
  <1> QED BY <1>1 DEF OnWay, Newest

LEMMA RegisterDelivers == ASSUME TInv, DInv, NEW b \in Browsers, Register(b) PROVE DInv'
  <1>1. /\ registered' = registered \cup {b} /\ greeting' = [greeting EXCEPT ![b].pc = "windows"]
        /\ greeting[b].pc = "register" /\ greeting[b] \in Reader /\ DOMAIN greeting = Browsers
        /\ UNCHANGED <<db, edit, contested, broadcast, feed, socket, view, greeted, outdated>>
    BY TypesNow DEF Register
  <1>2. feed[b] = <<>> /\ ~ greeted[b] /\ socket[b] # "closed"
    BY <1>1 DEF DInv, Links, Unlinked
  <1>3. greeting'[b].pc = "windows" /\ \A c \in Browsers \ {b} : greeting'[c] = greeting[c]
    BY <1>1 DEF Reader
  <1>4. Links'
    BY <1>1, <1>2, <1>3 DEF DInv, Links, Unlinked
  <1>5. ASSUME NEW w \in Windows, NEW c \in registered', c \in registered => OnWay(c, w) PROVE OnWay(c, w)'
    <2>1. OnWay(c, w)
      BY <1>1, <1>2, <1>5, NothingOnWay
    <2> QED BY <1>1, <2>1 DEF OnWay
  <1> QED BY <1>1, <1>4, <1>5, BrowserDelivers

LEMMA GreetingsDeliver ==
    ASSUME TInv, DInv, NEW b \in Browsers, Greet(b) \/ GreetFails(b) \/ QueueHello(b) PROVE DInv'
  <1>1. /\ UNCHANGED <<db, edit, contested, broadcast, registered, socket, view, greeted, outdated>>
        /\ greeting[b].pc # "register" /\ greeting[b].pc # "idle"
        /\ greeting \in [Browsers -> Reader] /\ feed[b] \in Seq(Message) /\ registered \subseteq Browsers
    BY TypesNow DEF Greet, GreetFails, QueueHello, Reading
  <1>2. greeting'[b].pc # "register" /\ \A c \in Browsers \ {b} : greeting'[c] = greeting[c]
    <2>1. PICK x \in Reader : greeting' = [greeting EXCEPT ![b] = x] /\ x.pc # "register"
      <3>1. IdleReader \in Reader /\ IdleReader.pc = "idle"
        BY Readers DEF IdleReader, NewReader
      <3>2. ReadSnapshot(greeting[b]) \in Reader /\ ReadSnapshot(greeting[b]).pc # "register"
        <4>1. ReadSnapshot(greeting[b]) \in Reader
          BY <1>1, SnapshotRead DEF TInv
        <4>2. greeting[b] \in Reader
          BY <1>1
        <4>3. ReadSnapshot(greeting[b]).pc \in {"playlists", "answer"}
          BY <4>2 DEF ReadSnapshot, Reader
        <4> QED BY <4>1, <4>3
      <3> QED BY <3>1, <3>2 DEF Greet, GreetFails, QueueHello
    <2> QED BY <1>1, <2>1
  <1>3. socket[b] # "closed"
    BY <1>1 DEF DInv, Links
  <1>4. \A c \in Browsers \ {b} : feed'[c] = feed[c]
    <2>1. feed \in [Browsers -> Seq(Message)]
      BY TypesNow
    <2> QED BY <2>1 DEF Greet, GreetFails, QueueHello
  <1>5. feed'[b] = feed[b] \/ \E s : feed'[b] = Append(feed[b], Hello(s)) /\ Hello(s) \in Message
    <2>1. feed \in [Browsers -> Seq(Message)] /\ greeting[b] \in Reader
      BY TypesNow
    <2>2. CASE Greet(b) \/ GreetFails(b)
      BY <2>2 DEF Greet, GreetFails
    <2>3. CASE QueueHello(b)
      <3>1. feed'[b] \in {feed[b], Append(feed[b], Hello(greeting[b].read))}
        BY <2>1, <2>3 DEF QueueHello
      <3>2. greeting[b].read \in Snapshot
        BY <2>1 DEF Reader
      <3> HIDE DEF Snapshot
      <3>3. Hello(greeting[b].read) \in Message
        BY <3>2 DEF Message, Greeting, Hello
      <3> QED BY <3>1, <3>3
    <2> QED BY <2>2, <2>3
  <1>6. Links'
    BY <1>1, <1>2, <1>3, <1>4 DEF DInv, Links, Unlinked
  <1>7. ASSUME NEW w \in Windows, NEW c \in registered, OnWay(c, w) PROVE OnWay(c, w)'
    <2>1. CASE feed'[c] = feed[c]
      BY <1>1, <1>7, <2>1 DEF OnWay
    <2>2. ASSUME c = b, NEW s, feed'[b] = Append(feed[b], Hello(s)), Hello(s) \in Message PROVE OnWay(c, w)'
      <3>1. Hello(s).type # "PLAYLIST_UPDATED"
        BY DEF Hello
      <3>2. /\ News(feed'[b], w) = News(feed[b], w)
            /\ Newest(feed[b], w, db[w]) => Newest(feed'[b], w, db[w])
        BY <1>1, <2>2, <3>1, NewsAppended
      <3> QED BY <1>1, <1>7, <2>2, <3>2 DEF OnWay
    <2> QED BY <1>1, <1>4, <1>5, <2>1, <2>2
  <1> QED BY <1>1, <1>6, <1>7, BrowserDelivers

\* A snapshot shows every window as it is, or is known to be out of date.
LEMMA Applied ==
    ASSUME TInv, NEW b \in Browsers, NEW s, ApplySnapshot(b, s)
    PROVE  /\ \A w \in Windows : view'[b][w] = db[w] \/ w \in outdated'[b]
           /\ \A c \in Browsers \ {b} : view'[c] = view[c] /\ outdated'[c] = outdated[c]
  <1>1. DOMAIN view = Browsers /\ DOMAIN outdated = Browsers
    BY TypesNow
  <1> QED BY <1>1 DEF ApplySnapshot

LEMMA HandleEventDelivers == ASSUME TInv, DInv, NEW b \in Browsers, HandleEvent(b) PROVE DInv'
  <1>0. PICK m : m = Head(feed[b])
    OBVIOUS
  <1>1. /\ feed[b] \in Seq(Message) /\ feed[b] # <<>> /\ feed \in [Browsers -> Seq(Message)]
        /\ feed' = [feed EXCEPT ![b] = Tail(feed[b])]
        /\ socket[b] = "open" /\ greeting[b].pc = "idle" /\ greeted \in [Browsers -> BOOLEAN]
        /\ UNCHANGED <<db, edit, contested, broadcast, registered, greeting, socket>>
        /\ registered \subseteq Browsers /\ m \in Message
    BY <1>0, TypesNow, TailIs DEF HandleEvent
  <1>2. \/ m.type = "HELLO" /\ ApplySnapshot(b, m.read) /\ greeted' = [greeted EXCEPT ![b] = TRUE]
        \/ m.type = "PLAYLIST_UPDATED" /\ UpsertWindow(b, m.window, m.version) /\ greeted' = greeted
    BY <1>0 DEF HandleEvent
  <1>3. feed'[b] = Tail(feed[b]) /\ \A c \in Browsers \ {b} : feed'[c] = feed[c] /\ greeted'[c] = greeted[c]
    BY <1>1, <1>2
  <1>4. Links'
    BY <1>1, <1>3 DEF DInv, Links, Unlinked
  <1>5. \A c \in Browsers \ {b} : view'[c] = view[c] /\ outdated'[c] = outdated[c]
    <2>1. view \in [Browsers -> Snapshot] /\ outdated \in [Browsers -> SUBSET Windows]
      BY TypesNow
    <2> QED BY <1>2, <2>1, Applied DEF UpsertWindow
  <1>6. ASSUME NEW w \in Windows, NEW c \in registered, OnWay(c, w) PROVE OnWay(c, w)'
    <2>1. CASE c # b
      BY <1>1, <1>3, <1>5, <1>6, <2>1 DEF OnWay
    <2>2. CASE c = b
      <3>1. Newest(feed'[b], w, db[w])
        BY <1>1, <1>3, <1>6, <2>2, NewsTail DEF OnWay
      <3>2. CASE m.type = "HELLO" /\ ApplySnapshot(b, m.read)
        BY <1>1, <2>2, <3>1, <3>2, Applied DEF OnWay
      <3>3. CASE m.type = "PLAYLIST_UPDATED" /\ UpsertWindow(b, m.window, m.version) /\ greeted' = greeted
        <4>1. /\ view' = [view EXCEPT ![b][m.window] = m.version]
              /\ outdated' = [outdated EXCEPT ![b] = @ \ {m.window}]
              /\ view[b] \in [Windows -> Versions] /\ DOMAIN view = Browsers /\ DOMAIN outdated = Browsers
          BY <3>3, TypesNow DEF UpsertWindow, Snapshot
        <4>2. CASE m.window = w
          <5>1. view'[b][w] = m.version
            BY <4>1, <4>2
          <5>2. News(feed'[b], w) = {} => m.version = db[w]
            BY <1>0, <1>1, <1>3, <1>6, <2>2, <3>3, <4>2, NewsTail DEF OnWay
          <5> QED BY <1>1, <2>2, <3>1, <5>1, <5>2 DEF OnWay
        <4>3. CASE m.window # w
          <5>1. view'[b][w] = view[b][w] /\ (w \in outdated[b] => w \in outdated'[b])
            BY <4>1, <4>3
          <5>2. News(feed'[b], w) = {} => News(feed[b], w) = {}
            BY <1>0, <1>1, <1>3, <4>3, NewsTail
          <5> QED BY <1>1, <1>6, <2>2, <3>1, <3>3, <5>1, <5>2 DEF OnWay
        <4> QED BY <4>2, <4>3
      <3> QED BY <1>2, <3>2, <3>3
    <2> QED BY <2>1, <2>2
  <1> QED BY <1>1, <1>4, <1>6, BrowserDelivers

LEMMA FetchesDeliver == ASSUME TInv, DInv, NEW b \in Browsers, NEW i \in Requests, FetchStep(b, i) PROVE DInv'
  <1>1. UNCHANGED <<db, edit, contested, broadcast, registered, greeting, feed, socket, greeted>>
    BY DEF FetchStep, ReadFetch, ApplyFetch, FetchFails
  <1>2. Links'
    BY <1>1 DEF DInv, Links, Unlinked
  <1>3. UNCHANGED <<view, outdated>> \/ ApplySnapshot(b, fetch[b][i].read)
    BY DEF FetchStep, ReadFetch, ApplyFetch, FetchFails
  <1>4. registered \subseteq Browsers
    BY TypesNow
  <1>5. ASSUME NEW w \in Windows, NEW c \in registered, OnWay(c, w) PROVE OnWay(c, w)'
    <2>1. CASE view'[c] = view[c] /\ outdated'[c] = outdated[c]
      BY <1>1, <1>5, <2>1 DEF OnWay
    <2>2. CASE c = b /\ ApplySnapshot(b, fetch[b][i].read)
      BY <1>1, <1>5, <2>2, Applied DEF OnWay
    <2> QED BY <1>3, <1>4, <2>1, <2>2, Applied
  <1> QED BY <1>1, <1>2, <1>5, BrowserDelivers

LEMMA SocketsDeliver ==
    ASSUME TInv, DInv, NEW b \in Browsers, OpenSocket(b) \/ Poll(b) \/ Disconnect(b) \/ Connect(b) PROVE DInv'
  <1>1. /\ socket \in [Browsers -> {"closed", "connecting", "open"}]
        /\ feed \in [Browsers -> Seq(Message)] /\ greeting \in [Browsers -> Reader]
        /\ registered \subseteq Browsers /\ greeted \in [Browsers -> BOOLEAN]
    BY TypesNow
  <1>2. IdleReader.pc = "idle" /\ NewReader("register", FALSE).pc = "register"
    BY DEF IdleReader, NewReader
  <1>3. CASE OpenSocket(b) \/ Poll(b)
    <2>1. /\ UNCHANGED <<db, edit, contested, broadcast, registered, greeting, feed, view, greeted, outdated>>
          /\ \A c \in Browsers : socket'[c] = "closed" => socket[c] = "closed"
      BY <1>1, <1>3 DEF OpenSocket, Poll
    <2>2. Links'
      BY <2>1 DEF DInv, Links, Unlinked
    <2>3. \A w, c : OnWay(c, w) => OnWay(c, w)'
      BY <2>1 DEF OnWay
    <2> QED BY <2>1, <2>2, <2>3, BrowserDelivers
  <1>4. CASE Disconnect(b)
    <2>1. /\ UNCHANGED <<db, edit, contested, broadcast, view, outdated>> /\ registered' = registered \ {b}
          /\ \A c \in Browsers \ {b} : /\ socket'[c] = socket[c] /\ feed'[c] = feed[c]
                                       /\ greeting'[c] = greeting[c] /\ greeted'[c] = greeted[c]
          /\ feed'[b] = <<>> /\ greeted'[b] = FALSE /\ greeting'[b] = IdleReader
      BY <1>1, <1>4 DEF Disconnect
    <2>2. Links'
      BY <1>2, <2>1 DEF DInv, Links, Unlinked
    <2>3. registered' \subseteq registered /\ \A c \in registered' : c \in Browsers \ {b}
      BY <1>1, <2>1
    <2>4. \A w : \A c \in registered' : OnWay(c, w) => OnWay(c, w)'
      BY <2>1, <2>3 DEF OnWay
    <2> QED BY <2>1, <2>2, <2>3, <2>4, BrowserDelivers
  <1>5. CASE Connect(b)
    <2>1. /\ UNCHANGED <<db, edit, contested, broadcast, registered, feed, view, greeted, outdated>>
          /\ \A c \in Browsers \ {b} : socket'[c] = socket[c] /\ greeting'[c] = greeting[c]
          /\ socket[b] = "closed" /\ socket'[b] = "connecting"
      BY <1>1, <1>5 DEF Connect
    <2>2. Links'
      BY <2>1 DEF DInv, Links, Unlinked
    <2>3. \A w, c : OnWay(c, w) => OnWay(c, w)'
      BY <2>1 DEF OnWay
    <2> QED BY <2>1, <2>2, <2>3, BrowserDelivers
  <1> QED BY <1>3, <1>4, <1>5

LEMMA DeliveryInductive == TInv /\ DInv /\ [Next]_vars => DInv'
  <1> SUFFICES ASSUME TInv, DInv, [Next]_vars PROVE DInv'
    OBVIOUS
  <1>1. ASSUME NEW e \in env.edits, EditStep(e) PROVE DInv'
    <2>1. e \in Edits /\ env.windows \subseteq Windows
      BY EnvironmentFacts DEF TInv
    <2>2. ASSUME NEW w \in env.windows, NEW by \in Browsers \cup {Elsewhere},
                 CommitEdit(e, w, by) \/ CreateWindow(e, w, by)
          PROVE  DInv'
      BY <2>1, <2>2, ChangesDeliver DEF CommitEdit, CreateWindow
    <2> QED BY <1>1, <2>1, <2>2, EditsDeliver DEF EditStep
  <1>2. CASE FanOut
    BY <1>2, FanOutDelivers
  <1>3. ASSUME NEW b \in Browsers, ConnectionStep(b) PROVE DInv'
    BY <1>3, RegisterDelivers, GreetingsDeliver DEF ConnectionStep
  <1>4. ASSUME NEW b \in Browsers, BrowserStep(b) PROVE DInv'
    BY <1>4, HandleEventDelivers, SocketsDeliver DEF BrowserStep
  <1>5. ASSUME NEW b \in Browsers, NEW i \in Requests, FetchStep(b, i) PROVE DInv'
    BY <1>5, FetchesDeliver
  <1>6. CASE UNCHANGED vars
    <2>1. UNCHANGED <<db, edit, contested, broadcast, registered, greeting, feed, socket, view, greeted, outdated>>
      BY <1>6 DEF vars
    <2>2. Links'
      BY <2>1 DEF DInv, Links, Unlinked
    <2>3. \A w, c : OnWay(c, w) => OnWay(c, w)'
      BY <2>1 DEF OnWay
    <2> QED BY <2>1, <2>2, <2>3, BrowserDelivers
  <1> QED BY <1>1, <1>2, <1>3, <1>4, <1>5, <1>6 DEF Next

LEMMA DeliveryInitially == Init => DInv
  <1> SUFFICES ASSUME Init PROVE DInv
    OBVIOUS
  <1>1. Links
    BY DEF Init, Links, Unlinked
  <1>2. \A w : Publishing(w) = {}
    BY DEF Init, Publishing, IdleEdit
  <1>3. \A w : News(broadcast, w) = {}
    BY DEF Init, News
  <1>4. \A w : Newest(broadcast, w, db[w])
    BY <1>3 DEF Newest
  <1> QED BY <1>1, <1>2, <1>4 DEF DInv, Announces, Delivers, Init

LEMMA DeliveryAlways == Spec => []DInv
  BY DeliveryInitially, DeliveryInductive, TypesAlways, PTL DEF Spec

\* However many edits, connections, snapshots and browsers there are, a browser with
\* a greeted connection and nothing on its way shows what was committed, but for
\* windows whose last edits raced or failed half way, and for what an out-of-date
\* snapshot overwrote.
THEOREM ConvergesUnlessRaced == Spec => []ConvergedUnlessRaced
  <1>1. TInv /\ DInv => ConvergedUnlessRaced
    <2> SUFFICES ASSUME TInv, DInv, NEW b \in Browsers, Settled(b), greeted[b],
                        NEW w \in Windows \ (contested \cup outdated[b])
                 PROVE  view[b][w] = db[w]
      BY DEF ConvergedUnlessRaced
    <2>1. Publishing(w) = {}
      BY DEF Settled, NoEditRuns, Publishing
    <2>2. broadcast = <<>> /\ feed[b] = <<>> /\ b \in registered
      BY DEF Settled
    <2>3. News(broadcast, w) = {} /\ News(feed[b], w) = {}
      BY <2>2 DEF News
    <2>4. OnWay(b, w)
      BY <2>1, <2>2, <2>3 DEF DInv, Delivers
    <2> QED BY <2>3, <2>4 DEF OnWay
  <1> QED BY TypesAlways, DeliveryAlways, <1>1, PTL

=============================================================================

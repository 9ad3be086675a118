------------------------------ MODULE MCServer ------------------------------
(* Instances of Server for TLC.                                            *)
EXTENDS Server

CONSTANTS i1, i2, r1, r2

TwoPlaces == {i1, i2}
TwoRequests == {r1, r2}

Text(word) == [word |-> word, space |-> FALSE]
Spaced(word) == [word |-> word, space |-> TRUE]
Media(name, type, url, duration) ==
    [name |-> Text(name), type |-> Text(type), url |-> Text(url), duration |-> duration]

Clip == Media("clip", "video", "path", 2)
Pause == Media("pause", "blank", "", 1)
TwoMedia == <<Clip, Pause>>
TwoScreens == <<[name |-> "Lobby", items |-> <<1, 2>>], [name |-> "Cafeteria", items |-> <<2>>]>>

\* One call of every kind.
NewWindow(name) == [op |-> "createWindow", decodes |-> TRUE, name |-> name]
NewMedia(in) == [op |-> "createMedia", decodes |-> TRUE, input |-> {in}]
Add(w, ids, in) == [op |-> "add", decodes |-> TRUE, window |-> w, mediaId |-> ids, input |-> in]
Remove(w, item) == [op |-> "remove", decodes |-> TRUE, window |-> w, item |-> item]
MoveTo(w, item, p) == [op |-> "move", decodes |-> TRUE, window |-> w, item |-> item, position |-> p]
Read(op) == [op |-> op, decodes |-> TRUE]
Look(op, w) == [op |-> op, decodes |-> TRUE, window |-> w]

\* Everything that can be typed, one request.
Words == {"", "Lobby", "Gate", "long", "nul"}
Typed == {Spaced("Gate"), Spaced("")} \cup {Text(w) : w \in Words}
AnyMedia == {[name |-> n, type |-> t, url |-> u, duration |-> d] :
              n \in {Text("Gate"), Spaced(""), Text("long"), Text("nul")},
              t \in {Text("IMAGE"), Spaced("video"), Text("Blank"), Text("poster")},
              u \in {Text(f) : f \in Forms}, d \in 0 .. 4}
AnyInput == [kinds |-> {"server"}, maxBoots |-> 1, autoSeed |-> TRUE, faults |-> {},
             requests |-> {r1},
             calls |-> {[op |-> "add", decodes |-> FALSE]} \cup {NewWindow(n) : n \in Typed}
                         \cup {NewMedia(in) : in \in AnyMedia}
                         \cup {Add(w, ids, in) : w \in {1, 9}, ids \in {{}, {1}, {9}},
                                in \in {{}, {Clip}, {Media("", "blank", "", 1)}}}
                         \cup {MoveTo(1, 1, p) : p \in {{}, {-1}, {0}, {9}}}]

\* Two requests beside each other and beside failures and a shutdown.
Some == {NewWindow(Text("Gate")), NewMedia(Pause), Add(1, {}, {Pause}), Add(1, {1}, {}),
         Remove(1, 1), MoveTo(1, 1, {1}), Look("current", 1), Look("playlist", 1),
         Look("window", 1), Read("state"), Read("health"), Read("windows"), Read("media")}
TwoOperators == [kinds |-> {"server"}, maxBoots |-> 1, autoSeed |-> TRUE, faults |-> {"sigterm"},
                 requests |-> {r1, r2}, calls |-> Some]
OneOperator == [TwoOperators EXCEPT !.requests = {r1}, !.faults = {"db", "sigterm", "crash"}]

\* One request while the tables are cleared.
Clearing == [kinds |-> {"server", "force"}, maxBoots |-> 2, autoSeed |-> TRUE, faults |-> {},
             requests |-> {r1}, calls |-> Some]

\* Processes that start beside and after each other.
Boots == [kinds |-> Kinds, maxBoots |-> 3, autoSeed |-> TRUE, faults |-> {"db", "crash"},
          requests |-> {}, calls |-> {}]
ManyOrNothing == [Boots EXCEPT !.autoSeed = FALSE, !.kinds = {"server"}, !.maxBoots = 2]

Everything == {AnyInput, TwoOperators, OneOperator, Clearing, Boots, ManyOrNothing}

TwoServers == [Boots EXCEPT !.kinds = {"server"}, !.maxBoots = 2, !.faults = {}]
NoFailure == {TwoServers}
=============================================================================

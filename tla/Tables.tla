------------------------------- MODULE Tables -------------------------------
(***************************************************************************)
(* The tables windows, media and playlist_items, and the statements and    *)
(* transactions of the repositories on them, each of them one step.        *)
(*                                                                         *)
(* That an edit of a playlist is one step is what PlaylistStore shows.     *)
(* sync_events is the table of GlobalSync.  An id that a refused INSERT    *)
(* uses up is given to the next one here.                                  *)
(***************************************************************************)
EXTENDS Inputs, Sequences, FiniteSets

CONSTANTS Environments   \* the circumstances to check, one of which holds

VARIABLES
    env,       \* the circumstances; they never change
    windows,   \* window id -> its name and its playlist
    media,     \* media id -> the media item
    serial,    \* the identity sequences
    wipes      \* history: how many DELETEs of whole tables there have been

tables == <<windows, media, serial, wipes>>

Rows(f) == DOMAIN f

\* f with one more row, or another row in its place.
With(f, id, row) == [i \in DOMAIN f \cup {id} |-> IF i = id THEN row ELSE f[i]]

Items(w) == IF w \in Rows(windows) THEN windows[w].items ELSE <<>>

HasItem(w, item) == \E k \in DOMAIN Items(w) : Items(w)[k].id = item

NameTaken(name) == \E w \in Rows(windows) : windows[w].name = name

\* Mutant: nothing protects a media item that an item shows.
NeverInUse(m) == FALSE

InUse(m) == \E w \in Rows(windows) : \E k \in DOMAIN Items(w) : Items(w)[k].media = m

\* WindowRepository.Create and MediaRepository.Create, when no constraint fails.
InsertWindow(name) ==
    /\ windows' = With(windows, serial.window, [name |-> name, items |-> <<>>])
    /\ serial' = [serial EXCEPT !.window = @ + 1]
    /\ UNCHANGED <<media, wipes>>

InsertMedia(in) ==
    /\ media' = With(media, serial.media, in)
    /\ serial' = [serial EXCEPT !.media = @ + 1]
    /\ UNCHANGED <<windows, wipes>>

SetItems(w, items) == windows' = [windows EXCEPT ![w].items = items]

\* PlaylistRepository.Append, Remove and Move.
AppendItem(w, m) ==
    /\ SetItems(w, Append(Items(w), [id |-> serial.item, media |-> m]))
    /\ serial' = [serial EXCEPT !.item = @ + 1]
    /\ UNCHANGED <<media, wipes>>

\* The place of an item, whose id no other has, and the items but that one.
Place(items, item) == CHOOSE k \in DOMAIN items : items[k].id = item

Without(items, item) ==
    LET k == Place(items, item)
    IN  SubSeq(items, 1, k - 1) \o SubSeq(items, k + 1, Len(items))

RemoveItem(w, item) ==
    /\ SetItems(w, Without(Items(w), item))
    /\ UNCHANGED <<media, serial, wipes>>

MoveItem(w, item, target) ==
    LET rest == Without(Items(w), item)
        moved == Items(w)[Place(Items(w), item)]
        place == IF target > Len(rest) THEN Len(rest) ELSE target
    IN  /\ SetItems(w, SubSeq(rest, 1, place) \o <<moved>> \o SubSeq(rest, place + 1, Len(rest)))
        /\ UNCHANGED <<media, serial, wipes>>

\* DELETE FROM playlist_items; FROM windows, whose items go with them; FROM
\* media, which is refused while an item shows one.
DeleteAll(table) ==
    /\ \/ table = "playlist_items"
          /\ windows' = [w \in Rows(windows) |-> [windows[w] EXCEPT !.items = <<>>]]
          /\ UNCHANGED media
       \/ table = "windows" /\ windows' = <<>> /\ UNCHANGED media
       \/ table = "media" /\ media' = <<>> /\ UNCHANGED windows
    /\ wipes' = wipes + 1
    /\ UNCHANGED serial

\* The rows have their types, every item shows a media item that exists, ids
\* are not used twice, and no two windows have the same name.
TablesOK ==
    /\ \A w \in Rows(windows) :
          /\ w \in 1 .. serial.window - 1 /\ StorableName(windows[w].name)
          /\ \A v \in Rows(windows) : windows[v].name = windows[w].name => v = w
          /\ \A k \in DOMAIN Items(w) : Items(w)[k].media \in Rows(media)
          /\ \A k, l \in DOMAIN Items(w) : Items(w)[k].id = Items(w)[l].id => k = l
    /\ \A m \in Rows(media) : m \in 1 .. serial.media - 1 /\ StorableMedia(media[m])
=============================================================================

------------------------------- MODULE Inputs -------------------------------
(***************************************************************************)
(* What an operator may type, what of it is accepted, and what a table     *)
(* takes: the validation rules of internal/models and of CreateWindow, and *)
(* the CHECK constraints of the schema.                                    *)
(*                                                                         *)
(* A text is a word and whether there is white space around it.  What      *)
(* matters of a word is whether it is empty, too long, or holds a NUL,     *)
(* which JSON can carry and a PostgreSQL text cannot.  What matters of a   *)
(* URL is its form.                                                        *)
(***************************************************************************)
EXTENDS Integers

CONSTANTS
    Long,                \* words of more than 120 bytes
    Nul,                 \* words with a NUL in them
    MinDurationSeconds, MaxDurationSeconds

ASSUME WordsAssumption == "" \notin Long \cup Nul
ASSUME DurationAssumption == MinDurationSeconds \in Nat /\ MaxDurationSeconds \in Nat

TrimSpace(text) == text.word

\* A data URI, a path and an absolute URL; "nul" is one of the first two with a
\* NUL in it (url.Parse finds it in the third).
AcceptedForms == {"data", "path", "http", "nul"}
RefusedForms == {"data without comma", "protocol-relative", "unparsable", "other scheme", "no host"}
Forms == {""} \cup AcceptedForms \cup RefusedForms

ToLower(type) == CASE type = "IMAGE" -> "image" [] type = "Blank" -> "blank" [] OTHER -> type
Types == {"image", "video", "blank"}
RequiresURL(type) == type \in {"image", "video"}

\* A media item before it has an id.
Normalize(in) ==
    LET type == ToLower(TrimSpace(in.type))
    IN  [name |-> TrimSpace(in.name), type |-> type, duration |-> in.duration,
         url |-> IF type = "blank" THEN "" ELSE TrimSpace(in.url)]

ValidName(name) == name # "" /\ name \notin Long

ValidMediaURL(url) == url \in AcceptedForms

Validate(in) ==
    /\ ValidName(in.name) /\ in.type \in Types
    /\ RequiresURL(in.type) => ValidMediaURL(in.url)
    /\ in.duration \in MinDurationSeconds .. MaxDurationSeconds

-----------------------------------------------------------------------------
(* The constraints of the tables.                                          *)

StorableName(name) == name # "" /\ name \notin Nul

StorableMedia(in) ==
    /\ StorableName(in.name) /\ in.type \in Types
    /\ in.duration \in MinDurationSeconds .. MaxDurationSeconds
    /\ in.url # "nul"
    /\ IF RequiresURL(in.type) THEN in.url # "" ELSE in.url = ""
=============================================================================

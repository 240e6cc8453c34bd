-------------------------------- MODULE Config --------------------------------
(***************************************************************************)
(* Config (services/config): the INI loader and its typed reads.           *)
(*                                                                         *)
(* Trimming and tokenising are abstracted: a line of the file is one of    *)
(* the classes Load distinguishes.  A dotted name is the sequence of its   *)
(* parts, so that section and key are joined as the code joins them, and   *)
(* different pairs of them may make the same full key.                     *)
(***************************************************************************)
EXTENDS Integers, Sequences, FiniteSetsExt

CONSTANTS Lines,          \* the lines a file may hold
          MaxLines,       \* bound on the length of a file
          IntMin, IntMax  \* the range of int

(* A line is skipped (blank, comment), malformed (the five warnings of     *)
(* Load), a section header, or a pair of a key and a raw value.  A raw     *)
(* value is a number or a word.                                            *)
ASSUME ConfigAssumption ==
    /\ \A l \in Lines : l.kind \in {"skip", "malformed", "section", "pair"}
    /\ \A l \in Lines : l.kind = "pair" => l.value \in [word : STRING, n : Int]
    /\ MaxLines \in Nat
    /\ IntMin \in Int /\ IntMax \in Int /\ IntMin <= IntMax

VARIABLES entries_,         \* full key |-> value and line
          current_section,
          loading,          \* Load is reading the file
          file,             \* history: the lines that Load has read
          warned,           \* history: the lines logged as malformed
          overridden        \* history: the pairs of lines logged as duplicates

configVars == <<entries_, current_section, loading, file, warned, overridden>>

Empty == [k \in {} |-> 0]

ConfigInit ==
    /\ entries_ = Empty
    /\ current_section = <<>>
    /\ loading = FALSE
    /\ file = <<>> /\ warned = {} /\ overridden = {}

-----------------------------------------------------------------------------
(* Load, from the opened file on.  A file that does not open changes       *)
(* nothing: the earlier entries stay.                                      *)
Load ==
    /\ ~loading
    /\ loading' = TRUE
    /\ entries_' = Empty
    /\ current_section' = <<>>
    /\ file' = <<>> /\ warned' = {} /\ overridden' = {}

(* The next line is l.                                                     *)
Got(l) ==
    /\ loading /\ Len(file) < MaxLines
    /\ l \in Lines
    /\ file' = Append(file, l)
    /\ UNCHANGED loading

line_number == Len(file) + 1

SkipLine(l) ==
    /\ Got(l) /\ l.kind = "skip"
    /\ UNCHANGED <<entries_, current_section, warned, overridden>>

(* The section in force stays, also after a malformed section header.      *)
MalformedLine(l) ==
    /\ Got(l) /\ l.kind = "malformed"
    /\ warned' = warned \cup {line_number}
    /\ UNCHANGED <<entries_, current_section, overridden>>

SectionLine(l) ==
    /\ Got(l) /\ l.kind = "section"
    /\ current_section' = l.name
    /\ UNCHANGED <<entries_, warned, overridden>>

FullKey(section, key) == section \o key

\* Mutant: only a key of the line before counts as a duplicate.
DuplicateNearby(k) ==
    k \in DOMAIN entries_ /\ entries_[k].line = line_number - 1

Duplicate(k) == k \in DOMAIN entries_

PairLine(l) ==
    /\ Got(l) /\ l.kind = "pair"
    /\ LET k == FullKey(current_section, l.key)
       IN  /\ overridden' = IF Duplicate(k)
                            THEN overridden
                                   \cup {<<entries_[k].line, line_number>>}
                            ELSE overridden
           /\ entries_' = [x \in DOMAIN entries_ \cup {k} |->
                               IF x = k
                               THEN [value |-> l.value, line |-> line_number]
                               ELSE entries_[x]]
    /\ UNCHANGED <<current_section, warned>>

(* The end of the file, or an error of the stream, which getline does not  *)
(* tell from it: Load returns SUCCESS with what it has read.               *)
EndOfFile ==
    /\ loading
    /\ loading' = FALSE
    /\ UNCHANGED <<entries_, current_section, file, warned, overridden>>

Clear ==
    /\ ~loading
    /\ entries_' = Empty
    /\ file' = <<>> /\ warned' = {} /\ overridden' = {}
    /\ UNCHANGED <<current_section, loading>>

ConfigNext ==
    \/ Load \/ EndOfFile \/ Clear
    \/ \E l \in Lines : \/ SkipLine(l) \/ MalformedLine(l)
                        \/ SectionLine(l) \/ PairLine(l)

ConfigSpec == ConfigInit /\ [][ConfigNext]_configVars

-----------------------------------------------------------------------------
(* The parsers: whether a raw value parses, and to what.                   *)

Failed == [ok |-> FALSE]
Parsed(x) == [ok |-> TRUE, out |-> x]

(* from_chars refuses what does not fit an int.                            *)
ParseInt(raw) ==
    IF raw.word = "number" /\ raw.n \in IntMin..IntMax THEN Parsed(raw.n)
    ELSE Failed

Is(raw, words, n) == raw.word \in words \/ (raw.word = "number" /\ raw.n = n)

ParseBool(raw) ==
    IF Is(raw, {"true", "yes", "on"}, 1) THEN Parsed(TRUE)
    ELSE IF Is(raw, {"false", "no", "off"}, 0) THEN Parsed(FALSE)
    ELSE Failed

\* Mutant: a negative duration is let through.
NegativeDurations(raw) == ParseInt(raw)

ParseDurationMs(raw) ==
    LET i == ParseInt(raw)
    IN  IF i.ok /\ i.out >= 0 THEN i ELSE Failed

Parse(type, raw) ==
    CASE type = "string" -> Parsed(raw)
      [] type = "int" -> ParseInt(raw)
      [] type = "bool" -> ParseBool(raw)
      [] type = "duration" -> ParseDurationMs(raw)

(* RequireX and GetX.                                                      *)
Find(k) == k \in DOMAIN entries_

Require(type, k) == IF Find(k) THEN Parse(type, entries_[k].value) ELSE Failed

Get(type, k, default) ==
    LET r == Require(type, k) IN IF r.ok THEN r.out ELSE default

-----------------------------------------------------------------------------
(* The file read as a whole.                                               *)

SectionAt(i) ==
    LET headers == {j \in 1..i : file[j].kind = "section"}
    IN  IF headers = {} THEN <<>> ELSE file[Max(headers)].name

(* The lines that assign to the full key k.                                *)
Assigning(k) ==
    {i \in DOMAIN file : file[i].kind = "pair"
                           /\ SectionAt(i) \o file[i].key = k}

FullKeys == {SectionAt(i) \o file[i].key :
                i \in {j \in DOMAIN file : file[j].kind = "pair"}}

(* What the raw value means to each kind of read.                          *)
MeansBool(raw, b) ==
    raw \in [word : IF b THEN {"true", "yes", "on"} ELSE {"false", "no", "off"},
             n : {raw.n}]
        \/ raw = [word |-> "number", n |-> IF b THEN 1 ELSE 0]

(* Once Load has returned, a read of any key gives the value of the last   *)
(* line that assigns to it, with the section that was in force there, or   *)
(* nothing if there is no such line; as an int or a duration only when it  *)
(* is in range, as a bool only when it is one of the accepted words; and a *)
(* read with a default gives the default exactly when the mandatory read   *)
(* fails.                                                                  *)
ReadsSeeTheFile ==
    ~loading =>
        /\ DOMAIN entries_ = FullKeys
        /\ \A k \in FullKeys :
              LET raw == file[Max(Assigning(k))].value
                  int == Require("int", k)
                  dur == Require("duration", k)
                  bool == Require("bool", k)
              IN  /\ Require("string", k) = Parsed(raw)
                  /\ int.ok <=> /\ raw.word = "number"
                                /\ IntMin <= raw.n /\ raw.n <= IntMax
                  /\ int.ok => int.out = raw.n
                  /\ dur.ok <=> int.ok /\ raw.n >= 0
                  /\ dur.ok => dur = int
                  /\ bool.ok <=> \E b \in BOOLEAN : MeansBool(raw, b)
                  /\ bool.ok => MeansBool(raw, bool.out)
                  /\ \A d \in {IntMin, IntMax} :
                        Get("int", k, d) = IF int.ok THEN raw.n ELSE d

(* No line of the file is lost without a word: a malformed line has been   *)
(* logged, and a pair is either what its key now holds or was logged as    *)
(* overridden by a later line that assigns to the same full key, however   *)
(* its section and key are divided.                                        *)
NothingDroppedSilently ==
    /\ warned = {i \in DOMAIN file : file[i].kind = "malformed"}
    /\ \A k \in FullKeys : \A i \in Assigning(k) :
          LET later == {j \in Assigning(k) : j > i}
          IN  IF later = {} THEN Find(k) /\ entries_[k].line = i
              ELSE <<i, Min(later)>> \in overridden
    /\ \A p \in overridden :
          \E k \in FullKeys : {p[1], p[2]} \subseteq Assigning(k)
=============================================================================

---------------------------- MODULE CommandLine ----------------------------
(***************************************************************************)
(* What a console promises to whoever types at it: it asks for a name and  *)
(* a password, and then each line, as edited with the erase key, runs the  *)
(* command its first word is short for, with the other words as arguments. *)
(* There are no buffers.  Promised are only lines whose words are few and  *)
(* short enough and have one space between them; others may do anything.   *)
(***************************************************************************)
EXTENDS Integers, Sequences, SequencesExt

CONSTANTS
  Chars, Space,    \* what can be typed
  Commands,        \* the names of the commands, and what each does
  LineMax,         \* a line of so many characters is dropped
  WordMax,         \* letters of the longest word, and
  WordsMax,        \* the number of words, that a line is sure to be read with
  CmdMin,          \* letters of the shortest abbreviation
  Switches, NULL

VARIABLES
  stage,  \* "off", "name", "password", "session" or "crashed"
  line,   \* what has been typed since the last Enter
  ran     \* the arguments of the command the last key ran, or NULL

vars == <<stage, line, ran>>

Init == stage = "off" /\ line = <<>> /\ ran = NULL

Type(c) ==
  /\ stage # "crashed"
  /\ line' = IF Len(line) + 1 = LineMax THEN <<>> ELSE Append(line, c)
  /\ ran' = NULL /\ UNCHANGED stage

Erase ==
  /\ stage # "crashed"
  /\ line' = IF line = <<>> THEN <<>> ELSE Front(line)
  /\ ran' = NULL /\ UNCHANGED stage

Login ==
  /\ \/ stage = "off" /\ stage' = "name"
     \/ stage = "name" /\ stage' = "password"
     \/ stage = "password" /\ stage' = "session"
  /\ line' = <<>> /\ ran' = NULL

\* The maximal runs of characters that are not spaces, in order.
Words(s) ==
  LET starts == {i \in DOMAIN s : s[i] # Space /\ (i > 1 => s[i - 1] = Space)}
      end(i) == CHOOSE e \in i .. Len(s) :
                  /\ e = Len(s) \/ s[e + 1] = Space
                  /\ \A k \in i .. e : s[k] # Space
      order  == SetToSortSeq(starts, <)
  IN [n \in DOMAIN order |-> SubSeq(s, order[n], end(order[n]))]

\* A space that follows a word is followed by one.
Spaced(s) ==
  \A i \in DOMAIN s : s[i] = Space /\ (\E k \in 1 .. i : s[k] # Space)
                      => i < Len(s) /\ s[i + 1] # Space

Fits(words) ==
  /\ Len(words) \in 1 .. WordsMax
  /\ \A n \in DOMAIN words : Len(words[n]) <= WordMax

Promised(s) == Spaced(s) /\ Fits(Words(s))

\* The first argument may have a switch character before it.
Arguments(words) ==
  [n \in DOMAIN words |-> IF n = 2 /\ Head(words[2]) \in Switches
                            THEN Tail(words[2]) ELSE words[n]]

Runs(words) ==
  \/ /\ \A c \in Commands : ~IsPrefix(words[1], c.name) \/ Len(words[1]) < CmdMin
     /\ ran' = NULL /\ UNCHANGED stage
  \/ \E c \in Commands :
       /\ IsPrefix(words[1], c.name) /\ Len(words[1]) >= CmdMin
       /\ ran' = Arguments(words)
       /\ stage' = CASE c.does = "logout" -> "off"
                     [] c.does = "nothing" -> "crashed"
                     [] OTHER -> stage

Anything ==
  /\ stage' \in {"session", "off", "crashed"}
  /\ ran' = NULL \/ ran' \in Seq(Seq(Chars \cup {Space}))

Command ==
  /\ stage = "session"
  /\ \/ line = <<>> /\ ran' = NULL /\ UNCHANGED stage
     \/ line # <<>> /\ Promised(line) /\ Runs(Words(line))
     \/ line # <<>> /\ ~Promised(line) /\ Anything
  /\ line' = <<>>

Next == (\E c \in Chars \cup {Space} : Type(c)) \/ Erase \/ Login \/ Command

Spec == Init /\ [][Next]_vars
=============================================================================

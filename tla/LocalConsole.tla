---------------------------- MODULE LocalConsole ----------------------------
(***************************************************************************)
(* CLocalConsole of the Solar tutorial: a thread that reads the keyboard   *)
(* and hands each key to OnData, which keeps a line in m_szData, asks for  *)
(* a name and a password (any will do: NO_UGM_MODEL is defined), and then  *)
(* runs the command of each line.  Only that thread touches the state, so  *)
(* a key is a step.  No command sets m_bShowContinue, so the branches for  *)
(* it (LocalConsole.cpp:175-195, :276-279) are never taken; what is        *)
(* only printed, m_szUserName too, is left out.                            *)
(***************************************************************************)
EXTENDS Integers, Sequences, SequencesExt

CONSTANTS
  Chars,     \* the characters other than a space
  Space,
  NUL,       \* '\0'
  JUNK,      \* what new memory holds
  Table,     \* m_sDbgTbl: a sequence of records with a name and what it does
  DataSize,  \* the size of m_szData (512)
  LineMax,   \* where OnData starts the line anew (500)
  Rows,      \* words m_dbParamTab has room for (16)
  Cols,      \* and the room for each (32)
  CmdMin,    \* letters of the shortest abbreviation of a command (3)
  Switches,  \* what GetCmd drops from the first argument
  NULL

ASSUME ConsoleAssumption ==
  /\ LineMax \in 2 .. DataSize /\ Rows \in Nat \ {0} /\ Cols \in Nat \ {0, 1}
  /\ Chars \cap {Space, NUL, JUNK} = {} /\ Switches \subseteq Chars

VARIABLES
  m_iState,
  m_szData,
  m_iWordPosition,
  m_dbParamTab,   \* its rows one after the other
  m_pArgv         \* of the command the last key ran, else NULL: nobody reads
                  \* it afterwards

line == <<m_szData, m_iWordPosition>>
vars == <<m_iState, line, m_dbParamTab, m_pArgv>>

Init ==
  /\ m_iState = "off"
  /\ m_szData = [k \in 0 .. DataSize - 1 |-> JUNK] /\ m_iWordPosition = 0
  /\ m_dbParamTab = [k \in 0 .. Rows * Cols - 1 |-> JUNK]
  /\ m_pArgv = NULL

\* The C string at position k of a buffer of size n.
Text(buf, k, n) ==
  LET end == CHOOSE e \in k .. n : /\ e = n \/ buf[e] = NUL
                                   /\ \A i \in k .. e - 1 : buf[i] # NUL
  IN [i \in 1 .. end - k |-> buf[k + i - 1]]

-----------------------------------------------------------------------------
(* StrParse *)

\* m_dbParamTab[i][j] = c.  What lies past the table is m_iArgc and m_pArgv,
\* which are written again before they are read; what lies before it is the end
\* of m_szData, behind any line that is parsed (a line of spaces gets there).
Put(tab, i, j, c) ==
  [k \in DOMAIN tab |-> IF k = i * Cols + j THEN c ELSE tab[k]]

InWord(data, k) == k < DataSize /\ data[k] \notin {NUL, Space}

\* A word that has filled its row is skipped up to its end.
SkipWord(data, k) ==
  CHOOSE e \in k .. DataSize : ~InWord(data, e) /\ \A x \in k .. e - 1 : InWord(data, x)

\* The loop of StrParse over the locals i, j, k and the members it writes.
RECURSIVE Parsed(_, _)
Parsed(data, s) ==
  LET i == IF s.j = 0 THEN s.i + 1 ELSE s.i
  IN  IF s.k >= DataSize \/ data[s.k] = NUL THEN s
      ELSE IF data[s.k] = Space THEN
        Parsed(data, [s EXCEPT !.tab = IF s.i >= 0 THEN Put(@, s.i, s.j, NUL) ELSE @,
                               !.j = 0, !.k = @ + 1])
      ELSE IF i >= Rows THEN [s EXCEPT !.i = i]
      ELSE Parsed(data,
             [tab |-> Put(s.tab, i, s.j, data[s.k]), i |-> i, j |-> s.j + 1,
              params |-> i,
              k |-> 1 + IF s.j + 1 >= Cols THEN SkipWord(data, s.k) ELSE s.k])

StrParse(data) ==
  LET s == Parsed(data, [tab |-> m_dbParamTab, i |-> -1, j |-> 0, k |-> 0, params |-> 0])
  IN [s EXCEPT !.tab = Put(@, s.i, s.j, NUL)]

Row(s, n) == Text(s.tab, n * Cols, Rows * Cols)

\* A line of spaces finds the first word of the line before.  Nothing else of
\* the table, nor m_iParams, is read by a later line: it is forgotten.
FirstRow(s) ==
  [k \in DOMAIN s.tab |-> IF k <= Len(Row(s, 0)) THEN s.tab[k] ELSE JUNK]

GetCmd(s) ==
  LET str == Row(s, 1)
  IN IF str # <<>> /\ Head(str) \in Switches THEN Tail(str) ELSE str

\* The command, GetCmd(), and GetArg(0), GetArg(1), ... up to m_iParams.
Argv(s) ==
  [n \in 1 .. s.params + 1 |-> IF n = 2 THEN GetCmd(s) ELSE Row(s, n - 1)]

\* The first row of m_sDbgTbl that starts with the word, or none.
Selects(s, n) ==
  /\ Len(Row(s, 0)) >= CmdMin /\ IsPrefix(Row(s, 0), Table[n].name)
  /\ \A m \in 1 .. n - 1 : ~IsPrefix(Row(s, 0), Table[m].name)

\* What the proc of a command does to the state.  The separators of m_sDbgTbl
\* have none: to select one is a call through NULL.
StateAfter(n) == CASE Table[n].does = "logout" -> "off"
                   [] Table[n].does = "nothing" -> "crashed"
                   [] Table[n].does = "print" -> m_iState

-----------------------------------------------------------------------------
(* OnData *)

Awake == m_iState # "crashed"

Type(c) ==
  /\ Awake
  /\ m_szData' = [m_szData EXCEPT ![m_iWordPosition] = c]
  /\ m_iWordPosition' = IF m_iWordPosition + 1 >= LineMax THEN 0 ELSE m_iWordPosition + 1
  /\ m_pArgv' = NULL
  /\ UNCHANGED <<m_iState, m_dbParamTab>>

Back ==
  /\ Awake
  /\ m_iWordPosition' = IF m_iWordPosition > 0 THEN m_iWordPosition - 1 ELSE 0
  /\ m_pArgv' = NULL
  /\ UNCHANGED <<m_iState, m_szData, m_dbParamTab>>

\* Mutation: the end of the line is not marked.
Unterminated == m_szData

\* m_szData[m_iWordPosition++] = '\0', and the line is started anew.  As the
\* position is 0 then, it does not matter that case ASCII_CR runs on into case
\* ASCII_BACK.
Terminated == [m_szData EXCEPT ![m_iWordPosition] = NUL]

EnterOff ==
  /\ m_iState = "off" /\ m_iState' = "name"
  /\ m_iWordPosition' = 0 /\ m_pArgv' = NULL
  /\ UNCHANGED <<m_szData, m_dbParamTab>>

\* NO_UGM_MODEL: every password is right.
EnterLogin ==
  /\ \/ m_iState = "name" /\ m_iState' = "password"
     \/ m_iState = "password" /\ m_iState' = "session"
  /\ m_szData' = Terminated /\ m_iWordPosition' = 0
  /\ m_pArgv' = NULL
  /\ UNCHANGED m_dbParamTab

EnterNothing ==
  /\ m_iState = "session" /\ m_iWordPosition = 0
  /\ m_pArgv' = NULL
  /\ UNCHANGED <<m_iState, line, m_dbParamTab>>

\* StrParse runs the command, if there is one.
EnterLine ==
  LET s == StrParse(Terminated) IN
  /\ m_iState = "session" /\ m_iWordPosition > 0
  /\ m_dbParamTab' = FirstRow(s)
  /\ \/ /\ \A n \in DOMAIN Table : ~Selects(s, n)
        /\ m_pArgv' = NULL /\ UNCHANGED m_iState
     \/ \E n \in DOMAIN Table :
          Selects(s, n) /\ m_pArgv' = Argv(s) /\ m_iState' = StateAfter(n)
  /\ m_szData' = Terminated /\ m_iWordPosition' = 0

OnData ==
  \/ \E c \in Chars \cup {Space} : Type(c)
  \/ Back
  \/ EnterOff \/ EnterLogin \/ EnterNothing \/ EnterLine

Spec == Init /\ [][OnData]_vars

-----------------------------------------------------------------------------
(* Properties *)

\* Whatever is typed, erased and left behind by earlier lines in m_szData and
\* m_dbParamTab, a line logs in, runs the command its first word is short for
\* with the words that follow it, or is refused, as long as it has words and
\* they fit (LocalConsole.cpp:328 says what StrParse is for).
Shell == INSTANCE CommandLine WITH
  stage <- m_iState, ran <- m_pArgv,
  line <- SubSeq([i \in 1 .. DataSize |-> m_szData[i - 1]], 1, m_iWordPosition),
  Commands <- {Table[n] : n \in DOMAIN Table},
  WordMax <- Cols - 1, WordsMax <- Rows
ImplementsCommandLine == Shell!Spec
=============================================================================

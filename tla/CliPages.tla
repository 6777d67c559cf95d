------------------------------ MODULE CliPages ------------------------------
(* How MQTTClient::runCli cuts the output of one command into reply pages     *)
(* that fit one publish.  A line that fits no page goes out in pieces, each   *)
(* page but its last marked "cont".  A byte is its escaped cost and the       *)
(* length of the UTF-8 sequence it starts, 0 inside one.                      *)
EXTENDS Integers, Sequences, FiniteSetsExt

CONSTANTS Bytes,        \* the bytes a line is made of, [cost, seq] records
          Outputs,      \* the outputs, sequences of lines, a command may print
          Limits,       \* page limits (cliPageLimit), counted past the envelope
          StrOverhead,  \* CLI_STR_OVERHEAD: two quotes and a comma, 3
          ContCost      \* CLI_CONT_COST: the mark of a page that ends mid-line

VARIABLES output,   \* every line the command prints
          limit,    \* the page limit of this session
          todo,     \* lines not yet printed
          rest,     \* what is left of the line being printed, <<>> for none
          printing, \* a line is being printed
          page,     \* the strings on the open page
          sent,     \* pages published: their strings, and the cont mark
          dropped   \* lineDropped

vars == <<output, limit, todo, rest, printing, page, sent, dropped>>

Init ==
  /\ output \in Outputs /\ limit \in Limits
  /\ todo = output /\ rest = <<>> /\ printing = FALSE
  /\ page = <<>> /\ sent = <<>> /\ dropped = FALSE

-----------------------------------------------------------------------------
(* cliJsonStrLen, and measureJson of the page past its envelope.              *)
StrLen(s) ==
  LET upTo[i \in 0..Len(s)] == IF i = 0 THEN 0 ELSE upTo[i - 1] + s[i].cost
  IN upTo[Len(s)]
Measure(p) ==
  LET upTo[i \in 0..Len(p)] ==
        IF i = 0 THEN 0 ELSE upTo[i - 1] + StrLen(p[i]) + (IF i = 1 THEN 2 ELSE 3)
  IN upTo[Len(p)]

(* cliUtf8Cut: the last sequence goes when not all of it is there.            *)
Utf8Cut(s, n) ==
  LET back == {b \in 0..3 : b < n /\ s[n - b].seq # 0}
  IN IF back = {} THEN n
     ELSE LET b == Min(back) IN IF s[n - b].seq > b + 1 THEN n - 1 - b ELSE n

\* Mutant: the bytes that fit, cut wherever the budget ends.
JsonFitTorn(s, budget) == Max({k \in 0..Len(s) : StrLen(SubSeq(s, 1, k)) <= budget})

(* cliJsonFit: the bytes whose escaped form fits the budget.                  *)
JsonFit(s, budget) ==
  LET m == Max({k \in 0..Len(s) : StrLen(SubSeq(s, 1, k)) <= budget})
  IN IF m = Len(s) THEN m ELSE Utf8Cut(s, m)

(* cliNextPiece: how many bytes of s the open page takes, and whether that is *)
(* less than all of s.                                                        *)
Used  == Measure(page) + StrOverhead
Room  == IF Used < limit THEN limit - Used ELSE 0
Whole(s) == Used <= limit /\ StrLen(s) <= Room

\* Mutant: the mark of a page that ends mid-line is not paid for.
PieceUnmarked(s) == JsonFit(s, Room)

Piece(s) == IF Room > ContCost THEN JsonFit(s, Room - ContCost) ELSE 0


-----------------------------------------------------------------------------
(* The sink runCli hands to Shell::execute, one action per turn of its loop.  *)

PrintLine ==
  /\ ~printing /\ todo # <<>>
  /\ rest' = Head(todo) /\ todo' = Tail(todo) /\ printing' = TRUE
  /\ UNCHANGED <<output, limit, page, sent, dropped>>

AddWhole ==
  /\ printing /\ Whole(rest)
  /\ page' = Append(page, rest) /\ rest' = <<>> /\ printing' = FALSE
  /\ UNCHANGED <<output, limit, todo, sent, dropped>>

(* The line does not fit what others left of the page: a fresh one.           *)
FreshPage ==
  /\ printing /\ ~Whole(rest) /\ page # <<>>
  /\ sent' = Append(sent, [strings |-> page, cont |-> FALSE]) /\ page' = <<>>
  /\ UNCHANGED <<output, limit, todo, rest, printing, dropped>>

DropLine ==
  /\ printing /\ ~Whole(rest) /\ page = <<>> /\ Piece(rest) = 0
  /\ dropped' = TRUE /\ rest' = <<>> /\ printing' = FALSE
  /\ UNCHANGED <<output, limit, todo, page, sent>>

\* Mutant: the page that ends mid-line is not marked.
AddPieceUnmarked ==
  /\ printing /\ ~Whole(rest) /\ page = <<>> /\ Piece(rest) > 0
  /\ LET n == Piece(rest)
     IN /\ sent' = Append(sent, [strings |-> <<SubSeq(rest, 1, n)>>, cont |-> FALSE])
        /\ rest' = SubSeq(rest, n + 1, Len(rest))
  /\ UNCHANGED <<output, limit, todo, printing, page, dropped>>

AddPiece ==
  /\ printing /\ ~Whole(rest) /\ page = <<>> /\ Piece(rest) > 0
  /\ LET n == Piece(rest)
     IN /\ sent' = Append(sent, [strings |-> <<SubSeq(rest, 1, n)>>, cont |-> TRUE])
        /\ rest' = SubSeq(rest, n + 1, Len(rest))
  /\ UNCHANGED <<output, limit, todo, printing, page, dropped>>

Printed == ~printing /\ todo = <<>>

Next == PrintLine \/ AddWhole \/ FreshPage \/ DropLine \/ AddPiece

Spec == Init /\ [][Next]_vars

-----------------------------------------------------------------------------
(* Properties.                                                                *)

TypeOK ==
  /\ output \in Outputs /\ limit \in Limits
  /\ \A k \in 1..Len(todo) : todo[k] \in Seq(Bytes)
  /\ rest \in Seq(Bytes) /\ printing \in BOOLEAN /\ dropped \in BOOLEAN
  /\ \A k \in 1..Len(page) : page[k] \in Seq(Bytes)
  /\ \A k \in 1..Len(sent) : sent[k].cont \in BOOLEAN

(* A reader joins the last string of a page marked cont to the first of the   *)
(* next page.                                                                 *)
Pages == Append(sent, [strings |-> page, cont |-> FALSE])
Joined(lines, strings) ==
  IF strings = <<>> THEN lines
  ELSE SubSeq(lines, 1, Len(lines) - 1) \o <<lines[Len(lines)] \o Head(strings)>>
         \o Tail(strings)
Received ==
  LET upTo[i \in 0..Len(Pages)] ==
        IF i = 0 THEN <<>>
        ELSE IF i > 1 /\ Pages[i - 1].cont THEN Joined(upTo[i - 1], Pages[i].strings)
        ELSE upTo[i - 1] \o Pages[i].strings
  IN upTo[Len(Pages)]

(* Unless the last page says that a line was lost (ok:false), the reader of   *)
(* the pages has every line the command printed, whole and in order, wherever *)
(* the page boundaries fell.                                                  *)
Reassembles == Printed /\ ~dropped => Received = output

WholeChars(s) == \A i \in 1..Len(s) :
  /\ i + s[i].seq - 1 <= Len(s)
  /\ \A k \in 1..(s[i].seq - 1) : s[i + k].seq = 0

(* A published page stays within the page limit with its cont mark counted,   *)
(* and ends between two characters, never inside a UTF-8 sequence.            *)
PagesSound == \A k \in 1..Len(sent) :
  /\ Measure(sent[k].strings) + (IF sent[k].cont THEN ContCost ELSE 0) <= limit
  /\ (\A l \in 1..Len(output) : WholeChars(output[l]))
       => \A i \in 1..Len(sent[k].strings) : WholeChars(sent[k].strings[i])
=============================================================================

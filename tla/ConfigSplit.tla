----------------------------- MODULE ConfigSplit -----------------------------
(***************************************************************************)
(* Config: the text of the configuration file is cut into one piece for    *)
(* each server, from its opening brace to the brace that closes it.        *)
(*                                                                         *)
(* A text is a sequence of tokens: " " for any white space, the braces,    *)
(* ";", the word "server", and others that hold none of these.  Positions  *)
(* count from 1.                                                           *)
(***************************************************************************)
EXTENDS Integers, FiniteSets, SequencesExt

CONSTANT Tokens     \* what texts are made of

VARIABLES
    pc,             \* where the start of the program is
    text,           \* _config_content
    start, end,     \* locals of splitServersConfig
    pair,           \* braces still open inside the server's
    serversConf     \* _servers_conf

Blank  == " "
LBrace == "{"
RBrace == "}"

splitVars == <<text, start, end, pair, serversConf>>

At(k) == IF k <= Len(text) THEN text[k] ELSE "end"

\* The numbers of S in ascending order.
InOrder(S) ==
    [n \in 1..Cardinality(S) |-> CHOOSE k \in S : Cardinality({j \in S : j <= k}) = n]

\* isspace is skipped, up to the end of the text.
SkipBlanks(k) ==
    k + Cardinality({j \in k..Len(text) : \A m \in k..j : text[m] = Blank})

SplitInit ==
    /\ pc = "read"
    /\ text \in Seq(Tokens)
    /\ start = 1 /\ end = 1 /\ pair = 0
    /\ serversConf = <<>>

\* The path is of no file, or of one that cannot be opened, or it is empty.
takeServersConfig ==
    /\ pc = "read"
    /\ \/ pc' = "nofile"
       \/ text = <<>> /\ pc' = "malformed"
       \/ text # <<>> /\ pc' = "split"
    /\ UNCHANGED splitVars

\* Only the directive server may stand outside of braces.
searchServer ==
    /\ pc = "split" /\ start <= Len(text)
    /\ IF At(SkipBlanks(start)) = "server"
       THEN pc' = "bracket" /\ start' = SkipBlanks(start) + 1
       ELSE pc' = "malformed" /\ UNCHANGED start
    /\ UNCHANGED <<text, end, pair, serversConf>>

searchStartBracket ==
    /\ pc = "bracket"
    /\ IF At(SkipBlanks(start)) = LBrace
       THEN /\ pc' = "braces"
            /\ start' = SkipBlanks(start)
            /\ end' = SkipBlanks(start) + 1
            /\ pair' = 0
       ELSE pc' = "malformed" /\ UNCHANGED <<start, end, pair>>
    /\ UNCHANGED <<text, serversConf>>

\* Mutant: the first closing brace is taken for the server's.
FirstClosing == At(end) = RBrace

Closing == At(end) = RBrace /\ pair = 0

Deeper == IF At(end) = LBrace THEN 1 ELSE IF At(end) = RBrace THEN -1 ELSE 0

searchEndBracket ==
    /\ pc = "braces" /\ end <= Len(text) /\ ~Closing
    /\ pair' = pair + Deeper
    /\ end' = end + 1
    /\ UNCHANGED <<pc, text, start, serversConf>>

NextStart == end + 1

PushServerConf ==
    /\ pc = "braces" /\ end <= Len(text) /\ Closing
    /\ serversConf' = Append(serversConf, SubSeq(text, start, end))
    /\ start' = NextStart
    /\ pc' = "split"
    /\ UNCHANGED <<text, end, pair>>

MissingBracket ==
    /\ pc = "braces" /\ end > Len(text)
    /\ pc' = "malformed"
    /\ UNCHANGED splitVars

SplitEnds ==
    /\ pc = "split" /\ start > Len(text)
    /\ pc' = "servers"
    /\ UNCHANGED splitVars

SplitNext ==
    \/ takeServersConfig \/ searchServer \/ searchStartBracket
    \/ searchEndBracket \/ PushServerConf \/ MissingBracket \/ SplitEnds

-----------------------------------------------------------------------------
(* Safety.                                                                 *)

Count(s, k, token) == Cardinality({j \in 1..k : s[j] = token})

\* How deep in braces s is behind its k-th token.
Depth(s, k) == Count(s, k, LBrace) - Count(s, k, RBrace)

\* A block: its first brace is closed by its last token and by none before.
IsBlock(s) ==
    /\ s # <<>> /\ Depth(s, Len(s)) = 0
    /\ \A k \in 1..Len(s) - 1 : Depth(s, k) > 0

\* The grammar: blocks in braces, the word server and blanks before each, and
\* nothing, not even a blank, behind the last.
Tops(s)     == {k \in DOMAIN s : s[k] = LBrace /\ Depth(s, k) = 1}
CloseOf(s, k) == CHOOSE m \in k..Len(s) : /\ Depth(s, m) = 0
                                          /\ \A j \in k..m - 1 : Depth(s, j) > 0
Outside(s)  == {k \in DOMAIN s : Depth(s, k) = 0 /\ s[k] # RBrace}
Before(s, k) == {j \in Outside(s) : j < k /\ \A m \in j..k - 1 : m \in Outside(s)}

IsConfig(s) ==
    /\ s # <<>> /\ s[Len(s)] = RBrace
    /\ Depth(s, Len(s)) = 0 /\ \A k \in DOMAIN s : Depth(s, k) >= 0
    /\ \A k \in Outside(s) : s[k] \in {Blank, "server"}
    /\ \A k \in Tops(s) : Cardinality({j \in Before(s, k) : s[j] = "server"}) = 1

Blocks(s) ==
    LET tops == InOrder(Tops(s))
    IN  [n \in DOMAIN tops |-> SubSeq(s, tops[n], CloseOf(s, tops[n]))]

\* The scan accepts exactly the texts of the grammar, and cuts each into its
\* blocks, in order and none left out.
CutsAreServers ==
    /\ pc = "malformed" => ~IsConfig(text)
    /\ pc = "servers" => IsConfig(text) /\ serversConf = Blocks(text)
=============================================================================

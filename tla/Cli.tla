---------------------------------- MODULE Cli ----------------------------------
(***************************************************************************)
(* CliParser (src/src/parser/cli_parser.cpp) and the string functions it   *)
(* uses (src/src/common/string_utils.cpp).  A text is a sequence of        *)
(* pieces, each a space or a run of characters that are never told apart;  *)
(* Upper maps every piece to its form in capitals.                         *)
(***************************************************************************)
EXTENDS Integers, Sequences, FiniteSetsExt

CONSTANTS
  Space,
  Upper

Trim(input) ==
  LET ink == {i \in DOMAIN input : input[i] # Space} IN
  IF ink = {} THEN <<>> ELSE SubSeq(input, Min(ink), Max(ink))

(* The maximal runs without a space, in order.                             *)
SplitWhitespaceView(input) ==
  LET ink == {i \in DOMAIN input : input[i] # Space}
      begins == {i \in ink : i - 1 \notin ink}
      begin(n) == CHOOSE b \in begins : Cardinality({a \in begins : a <= b}) = n
      end(b) == Max({e \in ink : b <= e /\ b..e \subseteq ink})
  IN [n \in 1..Cardinality(begins) |-> SubSeq(input, begin(n), end(begin(n)))]

ToUpper(input) == [i \in DOMAIN input |-> Upper[input[i]]]

Joined(tokens, begin) ==
  LET upto[n \in (begin - 1)..Len(tokens)] ==
        CASE n < begin -> <<>>
          [] n = begin -> tokens[n]
          [] OTHER -> upto[n - 1] \o <<Space>> \o tokens[n]
  IN upto[Len(tokens)]

(* Variant for mutation: the value starts one token late.                  *)
JoinTokens_SkipsFirst(tokens, begin) == Joined(tokens, begin + 1)

JoinTokens(tokens, begin) == Joined(tokens, begin)

Command(type, key, value) == [type |-> type, key |-> key, value |-> value]
Invalid == Command("Invalid", <<>>, <<>>)

(* The verbs of each command, and how many tokens it takes.                *)
TypeOf(verb) ==
  CASE verb = <<"SET">> -> "Set"
    [] verb = <<"GET">> -> "Get"
    [] verb \in {<<"DEL">>, <<"DELETE">>} -> "Del"
    [] verb \in {<<"CLEAR_PERSISTENCE">>, <<"CLEAR-PERSISTENCE">>} -> "ClearPersistence"
    [] verb = <<"CLEAR">> -> "Clear"
    [] verb \in {<<"COMPACT">>, <<"SNAPSHOT">>} -> "CompactPersistence"
    [] verb \in {<<"INFO">>, <<"VERSION">>, <<"STATUS">>} -> "Info"
    [] verb = <<"HELP">> -> "Help"
    [] verb \in {<<"EXIT">>, <<"QUIT">>} -> "Exit"
    [] OTHER -> "Invalid"

ArityOk(type, n) ==
  CASE type = "Set" -> n >= 3
    [] type \in {"Get", "Del", "Clear"} -> n = 2
    [] type \in {"ClearPersistence", "CompactPersistence", "Info"} -> n = 1
    [] OTHER -> TRUE

Parse(input) ==
  LET trimmed == Trim(input)
      tokens == SplitWhitespaceView(trimmed)
      type == TypeOf(ToUpper(tokens[1]))
  IN
  IF trimmed = <<>> \/ ~ArityOk(type, Len(tokens)) THEN Invalid
  ELSE CASE type = "Set" -> Command(type, tokens[2], JoinTokens(tokens, 3))
         [] type \in {"Get", "Del"} -> Command(type, tokens[2], <<>>)
         [] type = "Clear" -> IF ToUpper(tokens[2]) = <<"PERSISTENCE">>
                                THEN Command("ClearPersistence", <<>>, <<>>) ELSE Invalid
         [] OTHER -> Command(type, <<>>, <<>>)
==============================================================================

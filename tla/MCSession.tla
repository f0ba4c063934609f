------------------------------- MODULE MCSession -------------------------------
(* Values for the constants of Session.                                    *)
EXTENDS Session

MCKeys == {<<"k">>, <<"K">>}
MCValues == {<<>>, <<"v">>, <<"K", " ", "v">>, <<"huge">>}

MCUpper ==
  [piece \in {" ", "set", "SET", "GET", "delete", "CLEAR", "persistence", "COMPACT",
              "INFO", "HELP", "quit", "k", "K", "v", "huge"} |->
     CASE piece = "set" -> "SET"
       [] piece = "delete" -> "DELETE"
       [] piece = "persistence" -> "PERSISTENCE"
       [] piece = "quit" -> "QUIT"
       [] piece = "k" -> "K"
       [] OTHER -> piece]

(* One piece counts one byte, except the one beyond every limit.           *)
MCBytes(text) == IF \E i \in DOMAIN text : text[i] = "huge" THEN 9 ELSE Len(text)

MCLines ==
  {<<"set", " ", "k", " ", " ", "v", " ">>,
   <<" ", "SET", " ", "k", " ", "K", " ", " ", "v">>,
   <<"SET", " ", "K", " ", "huge">>,
   <<"delete", " ", "k">>,
   <<"CLEAR", " ", "persistence">>,
   <<"COMPACT", " ">>,
   <<"GET", " ", "K">>,
   <<"SET", " ", "k", " ">>,
   <<" ", "quit">>}

Log(records) ==
  CASE Len(records) = 0 -> <<>>
    [] Len(records) = 1 -> Frame(records[1])
    [] Len(records) = 2 -> Frame(records[1]) \o Frame(records[2])

Odd == [Record(2, <<"k">>, <<"v">>) EXCEPT !.op = "other"]
OneEntry == [k \in Keys |-> IF k = <<"k">> THEN <<"v">> ELSE Absent]

(* Nothing; a version 2 log, whole and torn; version 3 logs with a gap in  *)
(* the numbering, an unknown opcode, half a header; old, present and       *)
(* damaged snapshots.                                                      *)
MCInitialFiles ==
  LET found(f, s) == [file |-> f, snap |-> s]
      first == Record(1, <<"k">>, <<"v">>)
      v3 == Header(1) \o Log(<<first>>)
  IN {found(<<>>, <<>>),
      found(Log(<<Record(0, <<"k">>, <<"v">>)>>), <<>>),
      found(Append(Log(<<Record(0, <<"k">>, <<"v">>)>>), Torn), <<>>),
      found(v3 \o Log(<<Record(3, <<"k">>, Absent)>>), <<>>),
      found(v3 \o Log(<<Odd>>), Encoding(OneEntry, 5)),
      found(<<TornMagic>>, LegacyEncoding(OneEntry)),
      found(v3, SubSeq(Encoding(OneEntry, 5), 1, 4))}
==============================================================================

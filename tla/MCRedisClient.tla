--------------------------- MODULE MCRedisClient ---------------------------
(***************************************************************************)
(* A small instance of RedisClient: pipelines as the Proxy's requests send *)
(* them, and an answer of every kind the reader knows, with line ends      *)
(* inside a payload, arrays in arrays, and what is no answer of Redis.     *)
(***************************************************************************)
EXTENDS RedisClient

MCRequests == {<<2>>, <<1, 1>>}

Text(number) ==
  LET digit(n) == Digits[n + 1]
      abs == IF number < 0 THEN -number ELSE number
      digits == IF abs < 10 THEN <<digit(abs)>> ELSE <<digit(abs \div 10), digit(abs % 10)>>
  IN IF number < 0 THEN <<"-">> \o digits ELSE digits

RECURSIVE Wire(_)
Wire(v) ==
  LET end == <<"cr", "lf">>
  IN CASE v.type = "integer" -> <<":">> \o Text(v.integer) \o end
       [] v.type = "status" -> <<"+">> \o v.str \o end
       [] v.type = "error" -> <<"-">> \o v.str \o end
       [] v.type = "nil" -> <<"$", "-", "1">> \o end
       [] v.type = "string" -> <<"$">> \o Text(Len(v.str)) \o end \o v.str \o end
       [] v.type = "array" ->
            <<"*">> \o Text(Len(v.element)) \o end
              \o FlattenSeq([i \in 1 .. Len(v.element) |-> Wire(v.element[i])])

Str(s) == [Node("string") EXCEPT !.str = s]
Num(n) == [Node("integer") EXCEPT !.integer = n]
Arr(e) == [Node("array") EXCEPT !.element = e]

Good ==
  {Num(-12),
   [Node("error") EXCEPT !.str = <<"cr">>],
   Arr(<<Arr(<<Str(<<"cr", "lf">>)>>), Num(1)>>)}

Junk ==
  {<<":", "1", "2", "cr", "lf">>,
   Wire(Arr(<<Arr(<<Arr(<<Num(1)>>)>>)>>))}

MCAnswers ==
  {[value |-> v, wire |-> Wire(v)] : v \in Good}
    \cup {[value |-> NoReply, wire |-> w] : w \in Junk}
    \cup {[value |-> Node("nil"), wire |-> <<"*", "-", "1", "cr", "lf">>]}
===========================================================================

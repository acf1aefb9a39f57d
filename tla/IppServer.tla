------------------------------- MODULE IppServer -------------------------------
(***************************************************************************)
(* honeypots/ipp_server.py: MainResource, its _build_response and          *)
(* _parse_attributes, under Twisted's web server.  A chunk is a request    *)
(*   [method |-> "POST" or other, operation |-> o, group |-> a group's     *)
(*    tag, attributes |-> a sequence of [tag |-> t, name |-> n,            *)
(*    value |-> v], tail |-> the bytes after them]                         *)
(* whose body is a sequence of bytes.  Indices count from 0 as in the      *)
(* code.  A byte above 127 is read as a negative number, which no table    *)
(* has.                                                                    *)
(***************************************************************************)
EXTENDS Queries

TypeOK ==
    /\ QueriesTypeOK
    /\ \A c \in Conns : Len(replies[c]) = Len(read[c])

Init == TcpInit

SupportedOperations == 1 .. 103 \ {50}
AttributeGroupTags == 0 .. 10
AttributeSyntaxes == 32 .. 35 \union 48 .. 55 \union {64} \union 65 .. 74 \union {127}
IntegerTag == 33
BooleanTag == 34

\* What a client sends (RFC 8010): version, operation, request id, group, attributes.
Uint16(n) == <<n \div 256, n % 256>>
Encoded(a) == <<a.tag>> \o Uint16(Len(a.name)) \o a.name \o Uint16(Len(a.value)) \o a.value
Body(request) ==
    <<2, 0>> \o Uint16(request.operation) \o <<0, 0, 0, 1, request.group>>
    \o Joined([i \in DOMAIN request.attributes |-> Encoded(request.attributes[i])])
    \o request.tail

Uint8At(data, index) == data[index + 1]
Uint16At(data, index) == 256 * data[index + 1] + data[index + 2]
Has(data, index, n) == index + n <= Len(data)
\* A slice that goes beyond the end is shorter.
GetString(data, index, length) ==
    SubSeq(data, index + 1, IF Has(data, index, length) THEN index + length ELSE Len(data))

-------------------------------------------------------------------------------
(* _parse_attributes *)

\* One attribute at an index: a number is read as the attribute itself.  "next" is the
\* index behind it.
Number(data, index, n) ==
    [ok |-> Has(data, index, n), name |-> <<"number", GetString(data, index, n)>>,
     value |-> <<>>, next |-> index + n]
Text(data, index) ==
    IF ~Has(data, index, 2) THEN [ok |-> FALSE]
    ELSE LET n == Uint16At(data, index)
             at == index + 2 + n
         IN  IF ~Has(data, at, 2) THEN [ok |-> FALSE]
             ELSE LET v == Uint16At(data, at)
                  IN  [ok |-> TRUE, name |-> <<"text", GetString(data, index + 2, n)>>,
                       value |-> GetString(data, at + 2, v), next |-> at + 2 + v]
Attribute(data, index, tag) ==
    IF tag \notin AttributeSyntaxes THEN [ok |-> FALSE]
    ELSE IF tag = IntegerTag THEN Number(data, index, 4)
    ELSE IF tag = BooleanTag THEN Number(data, index, 1)
    ELSE Text(data, index)

\* A nameless value belongs to the group before it.
AddTo(groups, name, value) ==
    IF name = <<"text", <<>>>>
    THEN [groups EXCEPT ![Len(groups)] = <<@[1], Append(@[2], value)>>]
    ELSE Append(groups, <<name, <<value>>>>)

Failed(s) == [s EXCEPT !.status = "failed", !.parsing = FALSE]

ParseOne(data, s) ==
    LET a == Attribute(data, s.index, s.tag)
    IN  IF ~a.ok \/ (a.name = <<"text", <<>>>> /\ s.groups = <<>>) THEN Failed(s)
        ELSE LET read1 == [s EXCEPT !.groups = AddTo(@, a.name, a.value)]
             IN  IF ~Has(data, a.next, 1) THEN Failed(read1)
                 ELSE [read1 EXCEPT !.index = a.next + 1, !.tag = Uint8At(data, a.next),
                                    !.parsing = Uint8At(data, a.next) \notin AttributeGroupTags]

\* MUTANT of ToParse: an off-by-one at the end of the header.
ToParseLess(data, index) == Len(data) - index - 1

\* The bound of the loop is the number of bytes that are left at its start.
ToParse(data, index) == Len(data) - index

Turn(data, bound, s) == IF s.parsing /\ s.index < bound THEN ParseOne(data, s) ELSE s

\* There are at most as many turns as bytes.
ParseAttributes(data, index, tag) ==
    LET start == [index |-> index, tag |-> tag, groups |-> <<>>, status |-> "success", parsing |-> TRUE]
        after[n \in 0 .. Len(data)] ==
            IF n = 0 THEN start ELSE Turn(data, ToParse(data, index), after[n - 1])
    IN  after[Len(data)]

-------------------------------------------------------------------------------
(* render_POST *)

\* A header that is cut or that no table knows raises: no response, but no failure either.
IsHeader(data) ==
    /\ Has(data, 0, 10)
    /\ Uint16At(data, 2) \in SupportedOperations
    /\ Uint8At(data, 8) \in AttributeGroupTags

BuildResponse(data) ==
    IF ~IsHeader(data) THEN [response |-> <<>>, status |-> "success"]
    ELSE LET s == IF Uint8At(data, 9) \in AttributeSyntaxes
                  THEN ParseAttributes(data, 10, Uint8At(data, 9))
                  ELSE [groups |-> <<>>, status |-> "success"]
         IN  [response |-> <<Uint16At(data, 2), Uint8At(data, 8), s.groups>>, status |-> s.status]

RenderPost(c, request) ==
    LET built == BuildResponse(Body(request))
    IN  /\ Received(c, request) /\ request.method = "POST"
        /\ LogAll(c, IF built.response = <<>> THEN <<Connection>>
                     ELSE <<Connection, [action |-> "query", status |-> built.status,
                                         data |-> built.response]>>)
        /\ Reply(c, IF built.status = "failed" THEN "BAD_REQUEST" ELSE "OK")
        /\ UNCHANGED link

\* The resource has no render method for other methods; nothing is logged.
NotAllowed(c, request) ==
    /\ Received(c, request) /\ request.method # "POST"
    /\ Reply(c, "not allowed")
    /\ UNCHANGED <<link, events>>

Next == \E c \in Conns :
    \/ ConnectionMadeUnlogged(c) \/ Lost(c)
    \/ \E request \in Chunks : RenderPost(c, request) \/ NotAllowed(c, request)
-------------------------------------------------------------------------------
(* Properties *)

\* A request as the RFC has it: attributes of text, the first with a name, and an end mark.
IsWellFormed(request) ==
    /\ request.method = "POST" /\ request.tail # <<>> /\ request.tail[1] = 3
    /\ request.operation \in SupportedOperations /\ request.group \in AttributeGroupTags
    /\ request.attributes # <<>> /\ request.attributes[1].name # <<>>
    /\ \A i \in DOMAIN request.attributes :
          request.attributes[i].tag \in AttributeSyntaxes \ {IntegerTag, BooleanTag}

\* The first k attributes, with the values of each together.
Grouped(attributes, k) ==
    LET first == At([i \in 1 .. k |-> i], {i \in 1 .. k : attributes[i].name # <<>>})
        end(g) == IF g = Len(first) THEN k ELSE first[g + 1] - 1
    IN  [g \in DOMAIN first |->
            <<<<"text", attributes[first[g]].name>>,
              [j \in 1 .. end(g) - first[g] + 1 |-> attributes[first[g] + j - 1].value]>>]

\* The attributes of a well-formed request are logged with their own values, and the parser
\* ends where they end; missing are at most some at the end that, with their tags and
\* lengths and the end mark, fit into eleven bytes: the loop stops ten bytes early (ipp_server.py:206-277).
AttributesAreRead ==
    \A c \in Conns :
        LET posted == At(read[c], {i \in DOMAIN read[c] :
                                      read[c][i].method = "POST" /\ IsHeader(Body(read[c][i]))})
            queries == Matching(events[c], "query")
        IN  /\ Len(posted) = Len(queries)
            /\ \A i \in DOMAIN posted : IsWellFormed(posted[i]) =>
                  LET attributes == posted[i].attributes
                      Missing(k) == Len(Body([posted[i] EXCEPT
                                        !.attributes = SubSeq(attributes, k + 1, Len(attributes))])) - 9
                  IN  /\ queries[i].status = "success"
                      /\ \E k \in 0 .. Len(attributes) :
                            /\ queries[i].data[3] = Grouped(attributes, k)
                            /\ k = Len(attributes) \/ Missing(k) <= 11
===============================================================================

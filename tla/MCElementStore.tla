--------------------------- MODULE MCElementStore ---------------------------
EXTENDS ElementStore

MCRoot == Box(-100, -50, 100, 50)

Elems == {"n1", "n2", "n3", "n4", "w1", "w2", "w3", "w4", "r1", "r2"}

CD == Text(<<67, 68>>)   \* CD
GB == Text(<<71, 66>>)   \* GB
Barrier == Text(<<98, 97, 114>>)   \* bar
Bus == Text(<<98, 117, 115>>)   \* bus
Foot == Text(<<102, 111, 111, 116>>)   \* foot
Gate == Text(<<103, 97, 116, 101>>)   \* gate
Kind == Text(<<107, 105, 110, 100>>)   \* kind
Lanes == Text(<<108, 97, 110, 101, 115>>)   \* lanes
Lat == Text(<<108, 97, 116>>)   \* lat
Lit == Text(<<108, 105, 116>>)   \* lit
Lock == Text(<<108, 111, 99, 107>>)   \* lock
Name == Text(<<110, 97, 109, 101>>)   \* name
Natural == Text(<<110, 97, 116, 117, 114, 97, 108>>)   \* natural
Old == Text(<<111, 108, 100>>)   \* old
Oneway == Text(<<111, 110, 101>>)   \* one
Surface == Text(<<115, 117, 114, 102>>)   \* surf
Tree == Text(<<116, 114, 101, 101>>)   \* tree
Big == Number(2097157)
Cold == Number(-40)

MCKeyOrder == <<Big, CD, GB, Barrier, Bus, Foot, Kind, Lanes, Lat, Lit, Lock, Name,
                Natural, Old, Oneway, Surface>>

\* One field of each kind, and a second one for few options, whose id is
\* written over; the text's id has the high bit of its last three, too.
MCField(id, kind, keys, options) ==
    [id |-> id, kind |-> kind, keys |-> keys, options |-> options]
MCSchema ==
    <<MCField(17, "combo", <<Lanes>>, [i \in 1 .. 16 |-> Number(i)]),
      MCField(10, "combo", <<Lit>>, <<Text(No), Text(Yes)>>),
      MCField(16, "localized string", <<Name>>, <<>>),
      MCField(12, "text", <<Name>>, <<>>),
      MCField(3, "checkbox", <<Oneway>>, <<>>),
      MCField(1, "combo", <<Surface>>, <<CD, Natural, Tree>>),
      MCField(14, "multi yes combo", <<Foot, Bus>>, <<>>)>>

\* A key that is removed, one that is renamed, and two tags that become others
MCRules ==
    <<[from |-> <<>>, copy |-> <<Old>>, to |-> <<>>],
      [from |-> <<>>, copy |-> <<Kind>>, to |-> <<<<Surface, Copied>>>>],
      [from |-> <<<<Barrier, Gate>>>>, copy |-> <<Lock>>,
       to |-> <<<<CD, Copied>>, <<Barrier, Tree>>>>]>>

Node(id, x, y, tags) == [kind |-> "node", id |-> id, at |-> <<x, y>>,
                         members |-> <<>>, roles |-> <<>>, tags |-> tags]
Way(id, members, tags) == [kind |-> "way", id |-> id, at |-> <<>>,
                           members |-> members, roles |-> <<>>, tags |-> tags]
Relation(id, members, roles, tags) ==
    [kind |-> "relation", id |-> id, at |-> <<>>, members |-> members,
     roles |-> roles, tags |-> tags]

\* Each packing once, and those of an odd length only:
\* "outer", "admin_centre", "", "A1", "1.5", "Q1a", "platform", "e" with an acute
\* accent, "A", "1+("
Roles == <<<<111, 117, 116, 101, 114>>,
           <<97, 100, 109, 105, 110, 95, 99, 101, 110, 116, 114, 101>>,
           <<>>, <<65, 49>>, <<49, 46, 53>>, <<81, 49, 97>>,
           <<112, 108, 97, 116, 102, 111, 114, 109>>, <<195, 169>>, <<65>>, <<49, 43, 40>>>>

MCData ==
    [e \in Elems |->
      CASE e = "n1" -> Node(5, 10, 10, <<<<Lat, CD>>>>)
        [] e = "n2" -> Node(6, 60, 30, <<<<Natural, Tree>>>>)
        [] e = "n3" -> Node(70, 0, 0, <<<<CD, GB>>, <<GB, Big>>>>)
        [] e = "n4" -> Node(300, -60, -20, <<>>)
        [] e = "w1" -> Way(9, <<"n1", "n2">>,
                           <<<<CD, Big>>, <<GB, Cold>>, <<Lat, CD>>, <<Name, GB>>,
                             <<Oneway, Text(No)>>, <<Surface, Tree>>>>)
        [] e = "w2" -> Way(10, <<"n3", "n2", "n1">>,
                           <<<<Barrier, Gate>>, <<Bus, Text(Yes)>>, <<Kind, Natural>>,
                             <<Lanes, Number(16)>>, <<Lock, GB>>, <<Name, Number(-12)>>,
                             <<Natural, Number(9)>>>>)
        [] e = "w3" -> Way(11, <<"n2", "n1">>, <<<<GB, Cold>>, <<Lit, Text(Yes)>>>>)
        [] e = "w4" -> Way(12, <<"n4", "n1">>,
                           <<<<Big, Cold>>, <<CD, Number(-5)>>, <<GB, Number(70000000)>>,
                             <<Barrier, Gate>>, <<Old, CD>>>>)
        [] e = "r1" -> Relation(13, <<"w1", "n3", "w1", "w1", "w1", "w1", "w1", "w1", "w1", "w1">>,
                                Roles, <<<<GB, Cold>>, <<Oneway, Text(Yes)>>>>)
        [] e = "r2" -> Relation(14, <<"r1", "n4">>, <<<<49, 50>>, <<65>>>>, <<>>)]

MCSingleInlined == (<<Natural, Tree>> :> 1)
MCNonStored == {Lat}
=============================================================================

----------------------------- MODULE MCDetector -----------------------------
(* An instance of Detector for TLC: addresses of two octets of two bits.   *)
EXTENDS Detector, TLC

CONSTANTS a, b, c, v6

TheIPs == {a, b, c}
TheASes == {1, 2, 3}

(* Two octets apart, one subnet within another, and the default route.     *)
Prefix(x, y, length) == [ip |-> <<x, y>>, length |-> length]
wide == Prefix(2, 0, 1)
narrow == Prefix(2, 2, 3)
other == Prefix(1, 0, 3)
default == Prefix(0, 0, 0)
SomeIPv4 == {wide, narrow, other, default}
SomeIPv6 == {v6}

(* Attributes. *)
Attr(kind, segments) == [kind |-> kind, segments |-> segments]
Plain(path) == <<Attr("other", <<>>), Attr("asPath", <<path>>)>>
Real(path, real) == <<Attr("asPath", <<path>>), Attr("as4Path", <<real>>)>>
OnlyReal == <<Attr("as4Path", <<<<1, 2>>>>)>>
WithSet == <<Attr("asPath", <<<<1, 2>>, <<3>>>>)>>
NoFirstSegment == <<Attr("asPath", <<<<>>, <<3>>>>)>>
TwoPaths == <<Attr("asPath", <<<<1, 2, 3>>>>), Attr("asPath", <<<<2, 1>>>>),
              Attr("asPath", <<>>)>>

(* Records of a RIB. *)
P(ip, as) == [ip |-> ip, as |-> as]
Table(peers) == [type |-> "table", peers |-> peers]
E(index, attributes) == [index |-> index, attributes |-> attributes]
Rib(prefix, entries) == [type |-> "rib", prefix |-> prefix, entries |-> entries]
Unparsable == [type |-> "unparsable"]
Other == [type |-> "other"]
Broken == [type |-> "broken"]

aRib ==
  <<Table(<<P(a, 1), P(b, 2)>>),
    Rib(wide, <<E(0, Plain(<<1, 2>>)), E(1, NoFirstSegment)>>),
    Rib(narrow, <<E(0, <<>>), E(1, Real(<<2, 1>>, <<3>>))>>)>>

(* A table with repeated addresses; two tables; an index out of range.     *)
Ribs ==
  {aRib,
   <<Table(<<P(a, 1), P(b, 2), P(a, 1), P(b, 3)>>), Unparsable,
     Rib(narrow, <<E(0, Plain(<<1>>)), E(2, Plain(<<1, 2>>)), E(3, WithSet)>>),
     Rib(v6, <<E(1, Plain(<<1, 2>>))>>), Rib(default, <<E(1, Plain(<<1, 2>>))>>)>>,
   <<Table(<<P(a, 1)>>), Rib(narrow, <<E(0, Plain(<<3>>))>>), Table(<<P(b, 2)>>)>>,
   <<Table(<<P(a, 1)>>), Rib(wide, <<E(0, TwoPaths), E(1, Plain(<<3>>))>>)>>}

(* Records of an updates file. *)
Update(ip, as, announced, withdrawn, attributes) ==
  [type |-> "update", ip |-> ip, as |-> as, announced |-> announced,
   withdrawn |-> withdrawn, attributes |-> attributes]

anUpdate ==
  <<Update(a, 1, <<wide, narrow>>, <<>>, Plain(<<1, 3>>)),
    Update(b, 1, <<>>, <<narrow>>, <<>>)>>

Updates ==
  {anUpdate,
   <<Update(c, 3, <<>>, <<>>, <<>>), Unparsable, Other, Table(<<P(c, 3)>>),
     Rib(wide, <<E(0, Plain(<<3>>))>>),
     Update(a, 2, <<narrow, wide>>, <<wide, other>>, Real(<<3, 3>>, <<2, 1>>))>>,
   <<Update(b, 2, <<other, default>>, <<narrow>>, WithSet), Broken,
     Update(b, 2, <<wide>>, <<>>, Plain(<<1>>))>>}

Panicking == <<Update(c, 3, <<wide>>, <<other>>, OnlyReal)>>

(* RIS messages. *)
Ris(ip, withdrawals, announcements, path) ==
  [type |-> "ris", ip |-> ip, as |-> 1, withdrawals |-> withdrawals,
   announcements |-> announcements, path |-> path]

SomeRisMessages ==
  {Ris(b, <<wide, v6>>, <<<<narrow, wide>>, <<other>>>>, <<<<1>>, <<2>>>>),
   Ris(c, <<other>>, <<<<v6, wide>>>>, <<<<1>>, Undecodable, <<2>>>>),
   Ris(a, <<narrow>>, <<<<wide>>>>, <<<<>>, Undecodable, <<1>>>>),
   Ris(b, <<wide>>, <<<<narrow>>, <<>>>>, <<<<3>>>>)}

(* Directories: no RIB, one, or two, updates before, at and after the time *)
(* of the last one, and names that lack a date or a time of day.           *)
Name(kind, time) == [kind |-> kind, time |-> time, parts |-> 3]
NoDate(kind) == [kind |-> kind, time |-> 0, parts |-> 1]
NoTimeOfDay(kind) == [kind |-> kind, time |-> 3, parts |-> 2]

Sound ==
  UNION {[ribs \cup updates -> Ribs \cup Updates] :
           ribs \in {{}, {Name("rib", 2)}},
           updates \in SUBSET {Name("updates", 2), Name("updates", 3)}}

WellTyped(d) ==
  \A n \in DOMAIN d : d[n] \in IF n.kind = "rib" THEN Ribs ELSE Updates

SomeDirectories ==
  {d \in Sound : WellTyped(d)}
    \cup {(Name("rib", 1) :> aRib) @@ (Name("updates", 1) :> anUpdate) @@ d :
            d \in {d \in Sound : WellTyped(d) /\ Name("updates", 3) \notin DOMAIN d}}
    \cup {NoDate("rib") :> aRib, NoTimeOfDay("rib") :> aRib,
          Name("rib", 2) :> anUpdate,
          NoDate("updates") :> anUpdate @@ Name("updates", 1) :> Panicking,
          NoTimeOfDay("updates") :> anUpdate @@ Name("updates", 1) :> anUpdate}

SomeRibFlags == {NoFile, Name("rib", 1)}
=============================================================================

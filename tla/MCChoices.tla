----------------------------- MODULE MCChoices ------------------------------
(* Installed packages, one of them with a newer version, new packages, one   *)
(* that cannot be installed, and foreign variants; .deb files with up to     *)
(* three relations, each of which may be an alternative to the next one;     *)
(* packages with plugins, one of them foreign; a package with three          *)
(* versions, one of which cannot be installed.                               *)
EXTENDS Choices

CONSTANTS base, tool, plugin, lonely, foreign, ghost

MCPackages   == {base, tool, plugin, lonely, foreign}
MCCacheOrder == <<tool, foreign, lonely, plugin, base>>
MCNameOrder  == <<base, foreign, lonely, plugin, tool>>
MCRequires   == [p \in MCPackages |-> IF p \in {tool, plugin} THEN {base} ELSE {}]

MCBare == [p \in MCPackages |-> IF p = foreign THEN base ELSE p]

MCOtherFiles ==
  {tool :> "purge" @@ plugin :> "install" @@ ghost :> "install",
   base :> "deinstall" @@ plugin :> "install"}

MCHashOrders ==
  LET order == <<base, plugin, ghost, tool, foreign, lonely>>
  IN {order, Reverse(order), <<tool, base, lonely, foreign, plugin, ghost>>}

MCVariant   == base :> foreign @@ tool :> tool
MCMultiArch == base :> "same" @@ tool :> "foreign"

MCNeeded  == tool :> {1, 2} @@ base :> {1}
MCRefused == tool :> {3} @@ base :> {}

MCVersions == {{1, 2}, {2}, {1}}

MCRelations ==
  {Relation(n, v, or) : n \in {base, plugin, lonely, ghost, tool}, v \in MCVersions, or \in BOOLEAN}

Unreadable == [Relation(ghost, {}, FALSE) EXCEPT !.readable = FALSE]

MCFields ==
  {<<>>} \cup {<<r>> : r \in MCRelations} \cup {<<r, s>> : r, s \in MCRelations}
    \cup {<<r, Unreadable, s>> : r, s \in {Relation(plugin, {1, 2}, FALSE), Relation(ghost, {1, 2}, TRUE)}}

MCDebs ==
  [name : {ghost, plugin}, arch : {"native", "foreign"}, version : {1}, depends : MCFields, conflicts : {<<>>}]
    \cup [name : {tool}, arch : {"all", "other"}, version : {1, 2, 3},
          depends : {<<Relation(plugin, {1, 2}, FALSE)>>}, conflicts : {<<>>}]
    \cup [name : {ghost}, arch : {"native", "foreign"}, version : {1}, depends : {<<>>},
          conflicts : {<<Relation(p, v, FALSE)>> : p \in {base, ghost, lonely}, v \in {{1}, {2}}}]

MCNative == MCPackages \ {foreign}

MCGstVersion ==
  [p \in MCPackages |-> CASE p \in {base, lonely, foreign} -> <<1, 0>> [] p = plugin -> <<1, 2>> [] OTHER -> <<>>]

MCGstFields ==
  [p \in MCPackages |->
     CASE p = plugin -> "decoder" :> {"mp3", "mp2"} @@ "element" :> {"queue"} @@ "urisource" :> {"http"}
       [] p = lonely -> "decoder" :> {"mp3", "ac3"} @@ "encoder" :> {"mp3"}
       [] p = base -> "decoder" :> {"ogg"}
       [] p = foreign -> "decoder" :> {"mp3", "dts"}
       [] OTHER -> <<>>]

MCRequest ==
  {Request("decoder", v, caps, 5, TRUE) :
     v \in {<<1, 0>>, <<1, 2>>}, caps \in {{"mp3"}, {"mp2", "ac3"}, {"ogg"}, {"dts"}}}
    \cup {Request("encoder", <<1, 0>>, {"mp3"}, 5, r) : r \in BOOLEAN}
    \cup {Request(t, <<1, 0>>, {"queue", "http"}, n, TRUE) : t \in {"element", "urisource"}, n \in {4, 5}}

MCRequests == {<<r>> : r \in MCRequest} \cup {<<r, s>> : r, s \in MCRequest}

MCPercentage == <<101, 40, 60>>
MCRoll       == <<0, 50, 60>>
=============================================================================

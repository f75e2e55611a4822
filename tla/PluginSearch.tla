---------------------------- MODULE PluginSearch ----------------------------
(***************************************************************************)
(* qapt-gst-helper: PluginInfo reads the requests that GStreamer makes,    *)
(* PluginFinder looks for a package for each of them (GstMatcher), and     *)
(* PluginHelper marks those packages, over the marks of PackageMarks, and  *)
(* commits them.  What happens around it is in Frontends.                  *)
(***************************************************************************)
EXTENDS Naturals, CommitOutcome

CONSTANTS
  Requests,   \* lists of requests that the program may be started with, see Request
  Native,     \* packages of the native architecture
  GstVersion, \* Gstreamer-Version of a package, a sequence of numbers; <<>> without one
  GstFields   \* the fields of a package: for each plugin type the formats or names

\* decoder and encoder requests have caps, a set of formats; the others one name.
PluginTypes == {"encoder", "decoder", "urisource", "urisink", "element"}

Request(type, version, caps, parts, readable) ==
  [type |-> type, version |-> version, caps |-> caps, parts |-> parts, readable |-> readable]

ASSUME PluginsAssumption ==
  /\ Native \subseteq Packages
  /\ GstVersion \in [Packages -> Seq(Nat)]
  /\ DOMAIN GstFields = Packages
  /\ \A rs \in Requests : rs \in Seq(ToSet(rs)) /\ \A r \in ToSet(rs) : Len(r.version) = 2

VARIABLES
  requests,   \* the arguments of the program
  strict,     \* QAPT_GST_STRICT_VERSION_MATCH is set
  search,     \* "reading", "finding", "offered", "nothing" or "committed"
  next,       \* index of the request that the finder is at
  foundCodecs, partialFound, \* m_foundCodecs and m_partialFound
  after       \* history: the marks that the worker has carried out

pluginVars == <<requests, strict, search, next, foundCodecs, partialFound, after>>

-----------------------------------------------------------------------------
(* PluginInfo *)

\* parseDetails: the caps of urisource and urisink begin with "uri", too, which ends
\* the reading before the type is looked at.
TypeRead(r) == IF r.type \in {"urisource", "urisink"} THEN "invalid" ELSE r.type

IsValid(r) == r.parts = 5 /\ (TypeRead(r) = "invalid" \/ r.readable)

ValidOnes(rs) == FoldLeft(LAMBDA list, r : IF IsValid(r) THEN Append(list, r) ELSE list, <<>>, rs)

SearchList == ValidOnes(requests)

(* GstMatcher *)

\* Strictly, the versions are equal; else those of the form x.y with the same x, and a
\* y that is not lower.
VersionMatches(p, r) ==
  LET v == GstVersion[p]
  IN  IF strict THEN v = r.version
      ELSE Len(v) = 2 /\ v[1] = r.version[1] /\ v[2] >= r.version[2]

FieldOf(p, type) == IF type \in DOMAIN GstFields[p] THEN GstFields[p][type] ELSE {}

\* Mutant: an installed package is taken for a match.
MatchesInstalled(p, r) ==
  /\ VersionMatches(p, r)
  /\ FieldOf(p, TypeRead(r)) \cap r.caps # {}

Matches(p, r) ==
  /\ p \notin Installed
  /\ VersionMatches(p, r)
  /\ FieldOf(p, TypeRead(r)) \cap r.caps # {}

-----------------------------------------------------------------------------
(* PluginFinder and PluginHelper *)

\* run: without a valid request the program ends.
ReadRequests ==
  /\ search = "reading"
  /\ search' = IF SearchList = <<>> THEN "nothing" ELSE "finding"
  /\ UNCHANGED <<markVars, requests, strict, next, foundCodecs, partialFound, after>>

\* find, and foundCodec or notFound: the first package that matches.
Find ==
  /\ search = "finding" /\ next <= Len(SearchList)
  /\ LET r == SearchList[next]
         i == SelectInSeq(CacheOrder, LAMBDA p : Matches(p, r) /\ p \in Native)
     IN  /\ foundCodecs' = IF i = 0 THEN foundCodecs ELSE Append(foundCodecs, CacheOrder[i])
         /\ partialFound' = (partialFound \/ i = 0)
  /\ next' = next + 1
  /\ UNCHANGED <<markVars, requests, strict, search, after>>

\* incrementProgress at the last request, and offerInstallPackages.
OfferInstallPackages ==
  /\ search = "finding" /\ next > Len(SearchList)
  /\ dep' = FoldLeft(SetInstalled, dep, foundCodecs)
  /\ search' = IF foundCodecs = <<>> \/ MarkedPackages' = {} THEN "nothing" ELSE "offered"
  /\ UNCHANGED <<held, requests, strict, next, foundCodecs, partialFound, after>>

\* install
InstallPlugins ==
  /\ search = "offered" /\ search' = "committed"
  /\ after' = CommitDone
  /\ UNCHANGED <<markVars, requests, strict, next, foundCodecs, partialFound>>

PluginInit ==
  /\ MarkInit
  /\ requests \in Requests /\ strict \in BOOLEAN
  /\ search = "reading" /\ next = 1 /\ foundCodecs = <<>> /\ partialFound = FALSE
  /\ after = Fresh

PluginNext == ReadRequests \/ Find \/ OfferInstallPackages \/ InstallPlugins

PluginSpec == PluginInit /\ [][PluginNext]_<<markVars, pluginVars>>

-----------------------------------------------------------------------------
(* Properties *)

\* A package that could be installed for the request: of this machine's architecture,
\* for the same series of GStreamer and not an older version.
Provides(p, r) ==
  /\ p \in Native \ Installed
  /\ Len(GstVersion[p]) = 2 /\ GstVersion[p][1] = r.version[1] /\ GstVersion[p][2] >= r.version[2]
  /\ strict => GstVersion[p] = r.version
  /\ FieldOf(p, r.type) \cap r.caps # {}

\* Once the offer is committed, each valid request for an encoder, a decoder or an
\* element that some package provides is provided by a package that is there, through
\* the marks, the list that is sent and the marks of the worker; nothing is broken; and
\* "partial" is told exactly if something is still missing.  This is so unless a package
\* was found that cannot be installed, which is not looked at.
PluginsAreProvided ==
  LET asked   == {SearchList[i] : i \in DOMAIN SearchList}
      known   == {r \in asked : r.type \in {"encoder", "decoder", "element"}}
      missing == {r \in known : ~\E p \in Packages : Provides(p, r)}
  IN  search = "committed" /\ (\A k \in DOMAIN foundCodecs : Installable(foundCodecs[k])) =>
        /\ \A r \in known \ missing : \E p \in Packages : Provides(p, r) /\ Present(after, p)
        /\ Broken(after) = {}
        /\ missing # {} => partialFound
        /\ partialFound => missing \cup (asked \ known) # {}

\* GstMatcher.cpp:36: "Gstreamer-Uri-Sources" is a field to be looked at, so that a
\* request for a source of an URI finds its package.
UriSourcesAreFound ==
  search \in {"nothing", "committed"} =>
    \A i \in DOMAIN SearchList :
      SearchList[i].type = "urisource" /\ (\E p \in Packages : Provides(p, SearchList[i]))
        => \E k \in DOMAIN foundCodecs : Provides(foundCodecs[k], SearchList[i])
=============================================================================

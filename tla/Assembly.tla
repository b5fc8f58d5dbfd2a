------------------------------ MODULE Assembly ------------------------------
(***************************************************************************)
(* One recovery of a repository: extract_tree_with_primary in              *)
(* src-tauri/src/main.rs.  What each extractor finds is input, a record of *)
(* fact lists; this module is the order in which they are joined, which    *)
(* depends on the layers that were asked for.                              *)
(***************************************************************************)
EXTENDS Observations

(* No layer selected means all of them.                                    *)
Wants(layers, names) == layers = {} \/ layers \cap names # {}
WantsApplication(layers) == Wants(layers, {"server", "events", "client"})
WantsServer(layers) == Wants(layers, {"server"})
WantsInfra(layers) == Wants(layers, {"infra", "cloud"})

(* retain_only_pulumi: the recovery of infrastructure alone keeps the      *)
(* resources and the files they are defined in.                            *)
RetainOnlyPulumi(facts) ==
    LET res == {n.id : n \in {n \in ToSet(facts.nodes) : n.id[1] = "res"}}
        keep == res \cup {e.dst : e \in {e \in facts.edges : e.label = "DEFINED_IN" /\ e.src \in res}}
    IN  [nodes |-> SelectSeq(facts.nodes, LAMBDA n : n.id \in keep),
         edges |-> {e \in facts.edges : e.src \in keep /\ e.dst \in keep}]

WithFacts(x, facts) == [x EXCEPT !.nodes = @ \o facts.nodes, !.edges = @ \cup facts.edges]

WithFactsIf(x, wanted, facts) == IF wanted THEN WithFacts(x, facts) ELSE x

(* The languages, in the order of the code.                                *)
Languages(x, in, names, wanted) == FoldLeft(LAMBDA y, l : WithFactsIf(y, wanted, in[l]), x, names)

Extracted(in, layers) ==
    WithFactsIf(
        Languages(
            Languages(
                WithFactsIf([nodes |-> <<>>, edges |-> {}, observed |-> {}],
                            WantsApplication(layers) \/ WantsInfra(layers),
                            IF WantsApplication(layers) THEN in.ts ELSE RetainOnlyPulumi(in.ts)),
                in, <<"webext", "idb">>, WantsApplication(layers)),
            in, <<"python", "go", "java", "kotlin">>, WantsServer(layers)),
        WantsInfra(layers), in.tf)

(* A state and a deployment observe resources only with infrastructure.    *)
WithState(x, in) == IF in.state = {} THEN x ELSE EnrichResources(x, CHOOSE s \in in.state : TRUE)
WithDeployment(x, in) == IF in.pulumi = {} THEN x ELSE EnrichPulumiResources(x, CHOOSE p \in in.pulumi : TRUE)
Enriched(x, in, layers) == IF WantsInfra(layers) THEN WithDeployment(WithState(x, in), in) ELSE x

(* The sites of the application, extension messaging included.             *)
EventSitesOf(in, layers) == IF WantsApplication(layers) THEN in.sites \o in.chrome ELSE <<>>
FetchSitesOf(in, layers) == IF WantsApplication(layers) THEN in.fetches ELSE <<>>

Stitched(x, in, layers, commit) ==
    WithFacts(x, Stitch(EventSitesOf(in, layers), in.env, in.manifest, commit))

WithFetches(x, in, layers, commit) ==
    LET endpoints == SelectSeq([i \in DOMAIN x.nodes |-> x.nodes[i].id], LAMBDA id : id[1] = "ep")
    IN  WithFacts(x, StitchFetches(FetchSitesOf(in, layers), endpoints, in.env, in.manifest, commit))

Traced(x, in, sites) ==
    LET kinds == [id \in {SiteGap("chan", s) : s \in ToSet(sites)} |-> (CHOOSE s \in ToSet(sites) : SiteGap("chan", s) = id).kind]
    IN  FoldLeft(LAMBDA y, t : ApplyTrace(y, t, kinds), x, in.traces)

(* Decisions and configuration files; a configuration file that some       *)
(* extractor has as a file keeps that node.                                *)
WithTools(x, in) ==
    LET known == {n.id : n \in {n \in ToSet(x.nodes) : n.label = "File" /\ ~n.ph}}
    IN  WithFacts(x, [in.tools EXCEPT !.nodes = SelectSeq(@, LAMBDA n : n.id \notin known)])

Documented(in, layers, commit) ==
    WithTools(
        WithFacts(
            Traced(
                WithFetches(Stitched(Enriched(Extracted(in, layers), in, layers), in, layers, commit), in, layers, commit),
                in, EventSitesOf(in, layers)),
            in.adr),
        in)

(* The whole recovery with the facts of the plugins: what edges need is    *)
(* minted, and placeholders of one id become one.                          *)
Settled(x) ==
    [x EXCEPT !.nodes = ReconcilePlaceholders(CloseOverEndpoints(@, [r \in MissingEndpoints(@, x.edges) |-> Unresolved]))]

Assemble(in, layers, plugins, commit) == Settled(FoldLeft(WithFacts, Documented(in, layers, commit), plugins))

(* An artifact that does not parse fails the recovery.                     *)
Readable(in, layers) == in.broken \notin (IF WantsInfra(layers) THEN {"state", "pulumi", "trace"} ELSE {"trace"})
=============================================================================

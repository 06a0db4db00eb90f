---------------------------- MODULE MCOrchestra ----------------------------
(***************************************************************************)
(* Applications of real packages, for TLC: the cfg names the services and  *)
(* the proxies, and the rest is read off the catalogue.                    *)
(***************************************************************************)
EXTENDS Orchestra, Services

MCNeeds ==
    [u \in Units |->
       IF u \in Containers THEN Catalogue[u].needs
       ELSE {s \in Containers : \E p \in Catalogue[s].proxies : p.name = u}]

MCMigrates == {s \in Containers : Catalogue[s].migrates}

MCReruns == {s \in Containers : Catalogue[s].reruns}

\* fx builds the application: all it is injected with is provided by its modules.
ASSUME InstallableAssumption ==
    /\ Containers \subseteq Names /\ Installable(Containers)
    /\ Proxies \subseteq {p.name : p \in ProxiesOf(Containers)}
=============================================================================

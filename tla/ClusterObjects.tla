---------------------------- MODULE ClusterObjects ----------------------------
(***************************************************************************)
(* What kahu reads of the Kubernetes objects it backs up and restores.  An *)
(* object keeps its UID u for ever; Obj[u] is a record:                    *)
(*   kind, ns   its kind and namespace ("cluster": it has none);           *)
(*   name       a sequence of parts: "a" prepended is <<"a">> \o name;     *)
(*   labels     its labels;                                                *)
(*   selects    the labels its selector asks for (workloads, services);    *)
(*   flags      a subset of {"owned", "deleting", "csi", "bootstrap",      *)
(*              "clusterIP", "headless", "nodePort"};                      *)
(*   replicas   of a StatefulSet;                                          *)
(*   refs       the objects it names: [via, kind, ns, name], via the field *)
(*              of the specification that holds the name:                  *)
(*              "volume" and "env" of a pod (template), "account" its      *)
(*              service account, "template" a volume claim template,       *)
(*              "class" and "bound" of a PersistentVolumeClaim, "source"   *)
(*              its data source, "claim" of a PersistentVolume, "subject"  *)
(*              and "role" of a binding.                                   *)
(***************************************************************************)
EXTENDS Naturals, Sequences, FiniteSets, NameLists

CONSTANT Obj

Kind(k, S) == {u \in S : Obj[u].kind = k}

In(ns, S) == {u \in S : Obj[u].ns = ns}

\* The objects of S a reference names.
At(r, S) == {u \in S : Obj[u].kind = r.kind /\ Obj[u].ns = r.ns /\ Obj[u].name = r.name}

Via(u, via) == {r \in Obj[u].refs : r.via = via}

Targets(u, via, S) == UNION {At(r, S) : r \in Via(u, via)}

\* Does an object name one of a field that is not there?
Dangles(u, via, S) == \E r \in Via(u, via) : At(r, S) = {}

Elements(list) == {list[i] : i \in DOMAIN list}

=============================================================================

------------------------------- MODULE MCProxy -------------------------------
(* Proxy with two pipelines that share one name, two clients on the first  *)
(* pipeline and one on the second.                                         *)
EXTENDS Proxy

CONSTANTS p1, p2, s1, s2, s3, n1

MCPipelines == {p1, p2}
MCSessions == {s1, s2, s3}
MCNames == {n1}
MCPipelineOf == [s \in MCSessions |-> IF s = s3 THEN p2 ELSE p1]
MCNameOf == [p \in MCPipelines |-> n1]
=============================================================================

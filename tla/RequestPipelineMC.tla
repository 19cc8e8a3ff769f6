-------------------------- MODULE RequestPipelineMC --------------------------
(* Module chains, virtual hosts and configurations for model checking.      *)
EXTENDS RequestPipeline

CONSTANTS a, z  \* HostHandler instances: of a named host, of the default host

(* The cargo features default-vhosts: main.rs with these modules per host. *)
VhostsTop == <<"anonymization", "headers">>
VhostsHost == <<"log", "compression", "auth", "rewrite", "upstream",
                "static_files", "response">>

(* A server built from the library with modules of its own; log, auth and  *)
(* rewrite on both levels.                                                 *)
LayeredTop == <<"anonymization", "log", "headers", "custom", "auth", "rewrite">>
LayeredHost == <<"log", "custom", "auth", "rewrite", "upstream", "static_files", "response">>

(* Selected features: default-vhosts and response-top-level.               *)
MixedTop == <<"anonymization", "headers", "response">>

MainValues == <<a>>
FallbackValues == <<z>>
TwoValues == <<a, z>>
NoValues == <<>>

Everything == [h \in Handlers |-> Kinds]
Fixed == {"anonymization", "headers", "rewrite", "response"}
(* Each module that guards, records or answers is on in one configuration  *)
(* and off in another.                                                     *)
SomeConfs ==
    {[h \in Handlers |-> IF h = Top THEN t ELSE s] :
        t \in {Kinds, Kinds \ {"anonymization", "upstream"},
               Kinds \ {"custom", "auth", "rewrite"}},
        s \in {Kinds, Kinds \ {"custom", "upstream"}, Kinds \ {"log", "upstream"},
               Kinds \ {"upstream", "static_files"}, Fixed}}
AllOn == {Everything}
(* The configurations of two virtual hosts differ.                         *)
DifferingConfs ==
    {Everything,
     [h \in Handlers |-> IF h = a THEN {"log", "response"} ELSE Kinds]}
=============================================================================

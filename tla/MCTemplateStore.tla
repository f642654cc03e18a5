-------------------------- MODULE MCTemplateStore --------------------------
(* The template commands on a store of up to four custom schemes. *)
EXTENDS TemplateStore, ReplenishmentSchemes

MCBuiltins == [n \in {"default"} |-> Default]
MCAutoNames == <<"auto1", "auto2">>
=============================================================================

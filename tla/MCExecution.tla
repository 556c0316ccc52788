---------------------------- MODULE MCExecution ----------------------------
(***************************************************************************)
(* The components that carry out work, each in a small instance: part      *)
(* names the one a behaviour is of, and the others stay as they begin.     *)
(***************************************************************************)
EXTENDS ControlLoop, MCHandoff, CapabilityCalls, EventDelivery, ProviderCalls,
        TraceReplay, ContentRegistries, PluginLoading, ProvenanceChain, Projection

\* ControlLoop: three module types, one of which offers a capability called
\* "replan", and tasks whose plans are a chain, a broken chain, one node, and the
\* plan of a replan itself.
MCTypes == {"reader", "writer", "fixer"}
MCCaps == [t \in MCTypes |-> CASE t = "reader" -> {"read"}
                              [] t = "writer" -> {"read", "write"}
                              [] t = "fixer"  -> {"write", "replan"}]
MCWeight == [t \in MCTypes |-> CASE t = "reader" -> 2
                                [] t = "writer" -> 4
                                [] t = "fixer"  -> 4]
MCTasks == {<<"read", "write", "read">>, <<"write", "read">>, <<"replan">>, <<"other">>}
MCReplanTask == <<"replan">>

\* EventDelivery: two writers of one aggregate.
MCAggregate == [e \in EventIds |-> "order"]

\* ProviderCalls: local and cloud providers in the orders a runtime tries them;
\* two modules ask the same thing, and a third needs what some do not have.
MCBindings == { <<"gemini", "openai">>, <<"anthropic", "ollama">>, <<"vllm">>, <<"reference">> }
MCNeeds == [r |-> Reasoning, s |-> Reasoning, e |-> Embedding]
MCInput == [r |-> "i", s |-> "i", e |-> "i"]

\* TraceReplay: a chain of two modules and one beside it.
MCPlanNodes == <<"n1", "n2", "n3">>
MCPlanEdges == {<<"n1", "n2">>}
MCModuleType == [n1 |-> "reader", n2 |-> "writer", n3 |-> "reader"]

\* ContentRegistries: two graphs that serialize alike, and a governed one.
MCDocumentOf == [g |-> "d1", h |-> "d1", k |-> "d2"]
MCOwner == [d2 |-> "t"]

\* PluginLoading: the editions a policy would admit.
MCManifests == { [plugin |-> "p", edition |-> "e1"], [plugin |-> "p", edition |-> "e2"],
                 [plugin |-> "q", edition |-> "e2"] }

\* Projection: units that demand nothing, or one its tenant and one local inputs.
MCDemands == { [u \in GraphUnits |-> {}],
               [u \in GraphUnits |-> IF u = 1 THEN {"tenant"}
                                    ELSE IF u = 2 THEN {"local inputs"} ELSE {}] }
MCContexts == {Undeployed, {"tenant"}}

----------------------------------------------------------------------------

VARIABLE part

Init ==
  /\ part \in {"loop", "calls", "delivery", "providers", "trace", "handoff",
               "registries", "plugins", "chain", "projection"}
  /\ LoopInit /\ CallsInit /\ DeliveryInit /\ TraceInit /\ HandoffInit
  /\ RegistriesInit /\ ChainInit /\ ProjectionInit
  /\ PluginsInit /\ (part = "plugins" \/ installed = [p \in Plugins |-> "e1"])
  /\ ProvidersInit /\ (part = "providers" \/ bound = <<"reference">>)

Next ==
  \/ /\ part = "loop" /\ LoopNext
     /\ UNCHANGED <<part, callVars, deliveryVars, providerVars, traceVars, handoffVars,
                    registryVars, pluginVars, chainVars, projectionVars>>
  \/ /\ part = "calls" /\ CallsNext
     /\ UNCHANGED <<part, loopVars, deliveryVars, providerVars, traceVars, handoffVars,
                    registryVars, pluginVars, chainVars, projectionVars>>
  \/ /\ part = "delivery" /\ DeliveryNext
     /\ UNCHANGED <<part, loopVars, callVars, providerVars, traceVars, handoffVars,
                    registryVars, pluginVars, chainVars, projectionVars>>
  \/ /\ part = "providers" /\ ProvidersNext
     /\ UNCHANGED <<part, loopVars, callVars, deliveryVars, traceVars, handoffVars,
                    registryVars, pluginVars, chainVars, projectionVars>>
  \/ /\ part = "trace" /\ TraceNext
     /\ UNCHANGED <<part, loopVars, callVars, deliveryVars, providerVars, handoffVars,
                    registryVars, pluginVars, chainVars, projectionVars>>
  \/ /\ part = "handoff" /\ HandoffNext
     /\ UNCHANGED <<part, loopVars, callVars, deliveryVars, providerVars, traceVars,
                    registryVars, pluginVars, chainVars, projectionVars>>
  \/ /\ part = "registries" /\ RegistriesNext
     /\ UNCHANGED <<part, loopVars, callVars, deliveryVars, providerVars, traceVars,
                    handoffVars, pluginVars, chainVars, projectionVars>>
  \/ /\ part = "plugins" /\ PluginsNext
     /\ UNCHANGED <<part, loopVars, callVars, deliveryVars, providerVars, traceVars,
                    handoffVars, registryVars, chainVars, projectionVars>>
  \/ /\ part = "chain" /\ ChainNext
     /\ UNCHANGED <<part, loopVars, callVars, deliveryVars, providerVars, traceVars,
                    handoffVars, registryVars, pluginVars, projectionVars>>
  \/ /\ part = "projection" /\ ProjectionNext
     /\ UNCHANGED <<part, loopVars, callVars, deliveryVars, providerVars, traceVars,
                    handoffVars, registryVars, pluginVars, chainVars>>

\* LoopFairness, CallsFairness and DeliveryFairness, each of its own behaviours.
Fairness ==
  /\ WF_loopVars(part = "loop" /\ Resume)
  /\ WF_loopVars(part = "loop" /\ Terminate("CONTINUE"))
  /\ SF_loopVars(part = "loop" /\ Dispatch(Runnable, {}))
  /\ \A c \in Calls : WF_callVars(part = "calls" /\ ThreadStep(c))
  /\ \A m \in EventIds : /\ WF_deliveryVars(part = "delivery" /\ SendMessage(m))
                         /\ WF_deliveryVars(part = "delivery" /\ ReceiveMessage(m))

Spec ==
  /\ Init
  /\ [][Next]_<<part, loopVars, callVars, deliveryVars, providerVars, traceVars, handoffVars,
                registryVars, pluginVars, chainVars, projectionVars>>
  /\ Fairness
============================================================================

--------------------------- MODULE PluginLoading ---------------------------
(***************************************************************************)
(* The plugin registry (plugins/): manifests are admitted against a pinned *)
(* policy when they are registered and again when the plugin is loaded,    *)
(* and the object the entry point makes must carry the admitted manifest.  *)
(*                                                                         *)
(* A manifest is [plugin, edition]: two editions differ in what they       *)
(* declare, so in their fingerprint.  What is installed at a plugin's      *)
(* entry point changes under the registry (an upgrade, a broken package).  *)
(***************************************************************************)
EXTENDS Naturals, FiniteSets

CONSTANTS
    Plugins,
    Editions,         \* editions of a plugin's manifest
    Trusted,          \* manifests whose fingerprint the policy trusts
    Compatible,       \* manifests of this API and DNC-IR version
    Permitted         \* manifests that ask for allowed authority only

Manifests == [plugin : Plugins, edition : Editions]
Broken == {"missing", "not_callable", "raises", "no_contract"}
NotThere == [plugin |-> "none", edition |-> "none"]

VARIABLES
    manifests,        \* _manifests: plugin -> the manifest object's content
    fingerprints,     \* _fingerprints: plugin -> that content at admission
    installed,        \* what the entry point gives: an edition, or Broken
    loaded            \* the last load: [asked, got], got NotThere if refused

pluginVars == <<manifests, fingerprints, installed, loaded>>

\* PluginLoadPolicy.admit
Admit(m) == m \in Compatible /\ m \in Trusted /\ m \in Permitted

Register(m) ==
    /\ Admit(m)
    /\ m.plugin \notin DOMAIN manifests
    /\ manifests' = [p \in DOMAIN manifests \cup {m.plugin} |->
                        IF p = m.plugin THEN m.edition ELSE manifests[p]]
    /\ fingerprints' = [p \in DOMAIN fingerprints \cup {m.plugin} |->
                        IF p = m.plugin THEN m.edition ELSE fingerprints[p]]
    /\ UNCHANGED <<installed, loaded>>

\* Code of the same process overwrites a field of a registered manifest.
Tamper(p, e) ==
    /\ p \in DOMAIN manifests
    /\ manifests' = [manifests EXCEPT ![p] = e]
    /\ UNCHANGED <<fingerprints, installed, loaded>>

Install(p, what) ==
    /\ installed' = [installed EXCEPT ![p] = what]
    /\ UNCHANGED <<manifests, fingerprints, loaded>>

AsInstalled(p) == installed[p] \notin Broken

\* The entry point resolves, its factory runs and what it made carries the
\* admitted manifest.
Implements(p) == installed[p] \notin Broken /\ installed[p] = manifests[p]

\* load: the checks in order; every failed one raises.
LoadPlugin(p) ==
    /\ p \in DOMAIN manifests
    /\ loaded' =
         [asked |-> p,
          got |-> IF /\ manifests[p] = fingerprints[p]
                     /\ Admit([plugin |-> p, edition |-> manifests[p]])
                     /\ Implements(p)
                  THEN [plugin |-> p, edition |-> installed[p]]
                  ELSE NotThere]
    /\ UNCHANGED <<manifests, fingerprints, installed>>

PluginsInit ==
    /\ manifests = <<>>
    /\ fingerprints = <<>>
    /\ installed \in [Plugins -> Editions]
    /\ loaded = [asked |-> "none", got |-> NotThere]

PluginsNext ==
    \/ \E m \in Manifests : Register(m)
    \/ \E p \in Plugins :
          \/ LoadPlugin(p)
          \/ \E e \in Editions : Tamper(p, e)
          \/ \E what \in Editions \cup Broken : Install(p, what)

PluginsSpec == PluginsInit /\ [][PluginsNext]_pluginVars

\* A plugin that load() hands out carries the very manifest that was
\* admitted at registration, whatever was installed at its entry point or
\* written to the registered manifest in between (PluginRegistry.load).
LoadedAsAdmitted ==
    loaded.got /= NotThere =>
        /\ loaded.got.edition = fingerprints[loaded.asked]
        /\ loaded.got \in Trusted \cap Compatible \cap Permitted

\* What the proof needs besides: a plugin that was handed out is registered,
\* and no registration is replaced.
PluginsInv ==
    /\ LoadedAsAdmitted
    /\ DOMAIN fingerprints = DOMAIN manifests
    /\ loaded.got /= NotThere => loaded.asked \in DOMAIN fingerprints

===========================================================================

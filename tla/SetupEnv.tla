------------------------------ MODULE SetupEnv ------------------------------
(***************************************************************************)
(* setup.sh fetches the layers a build needs.  It runs under `set -e`, can *)
(* be interrupted anywhere, and is run again until it says "Setup          *)
(* Complete!".  What it remembers of an earlier run is only whether a      *)
(* directory exists.                                                       *)
(***************************************************************************)
EXTENDS Naturals, Sequences

CONSTANT Faults     \* what may end a run early, see FaultKinds

\* "clone":    `git clone` fails and removes the directory it has begun
\* "checkout": `git checkout` fails in a finished clone
\* "kill":     the script and the git it runs are killed outright
FaultKinds == {"clone", "checkout", "kill"}

ASSUME SetupEnvAssumption == Faults \subseteq FaultKinds

\* The layers it clones, in order.
Layers == <<"poky", "meta-renesas", "meta-openembedded">>

VARIABLES
  pc,     \* "idle", "next", "clone", "checkout"
  i,      \* the layer the script is at
  tree,   \* what is in each layer's directory
  said    \* the last run ended with "Setup Complete!"

vars == <<pc, i, tree, said>>

\* "partial": a killed clone; "default": the repository's default branch;
\* "wanted":  the branch the build needs
Trees == {"absent", "partial", "default", "wanted"}

LayerNames == {Layers[n] : n \in DOMAIN Layers}

TypeOK ==
  /\ pc \in {"idle", "next", "clone", "checkout"}
  /\ i \in 1..(Len(Layers) + 1)
  /\ tree \in [LayerNames -> Trees]
  /\ said \in BOOLEAN

Init ==
  /\ pc = "idle" /\ i = 1 /\ said = FALSE
  /\ tree = [l \in LayerNames |-> "absent"]

Layer == Layers[i]

\* meta-renesas is cloned without -b and then checked out.
NeedsCheckout(l) == l = "meta-renesas"

Run ==
  /\ pc = "idle"
  /\ pc' = "next" /\ i' = 1 /\ said' = FALSE
  /\ UNCHANGED tree

\* Wrong variants: the directory is not looked for, so that a layer is fetched
\* over the one that is there; a missing directory is passed over.
Look_Anew ==
  /\ pc = "next" /\ i <= Len(Layers)
  /\ tree' = [tree EXCEPT ![Layer] = "absent"]
  /\ pc' = "clone"
  /\ UNCHANGED <<i, said>>

Look_Past ==
  /\ pc = "next" /\ i <= Len(Layers)
  /\ i' = i + 1
  /\ UNCHANGED <<pc, tree, said>>

\* if [ ! -d .. ]
Look ==
  /\ pc = "next" /\ i <= Len(Layers)
  /\ IF tree[Layer] = "absent"
       THEN pc' = "clone" /\ UNCHANGED i
       ELSE i' = i + 1 /\ UNCHANGED pc
  /\ UNCHANGED <<tree, said>>

Cloned ==
  /\ pc = "clone"
  /\ IF NeedsCheckout(Layer)
       THEN tree' = [tree EXCEPT ![Layer] = "default"] /\ pc' = "checkout" /\ UNCHANGED i
       ELSE tree' = [tree EXCEPT ![Layer] = "wanted"] /\ pc' = "next" /\ i' = i + 1
  /\ UNCHANGED said

CheckedOut ==
  /\ pc = "checkout"
  /\ tree' = [tree EXCEPT ![Layer] = "wanted"]
  /\ pc' = "next" /\ i' = i + 1
  /\ UNCHANGED said

Complete ==
  /\ pc = "next" /\ i > Len(Layers)
  /\ said' = TRUE
  /\ pc' = "idle"
  /\ UNCHANGED <<i, tree>>

\* set -e ends the script at the first command that fails.
CloneFails ==
  /\ "clone" \in Faults /\ pc = "clone"
  /\ pc' = "idle"
  /\ UNCHANGED <<i, tree, said>>

CheckoutFails ==
  /\ "checkout" \in Faults /\ pc = "checkout"
  /\ pc' = "idle"
  /\ UNCHANGED <<i, tree, said>>

Killed ==
  /\ "kill" \in Faults /\ pc # "idle"
  /\ IF pc = "clone"
       THEN tree' \in {tree, [tree EXCEPT ![Layer] = "partial"]}
       ELSE UNCHANGED tree
  /\ pc' = "idle"
  /\ UNCHANGED <<i, said>>

Next == \/ Run \/ Look \/ Cloned \/ CheckedOut \/ Complete
        \/ CloneFails \/ CheckoutFails \/ Killed

Spec == Init /\ [][Next]_vars

\* "Setup Complete!" (setup.sh:57-65) means that no layer is missing altogether.  That
\* every layer is on its branch does not follow: see README.md.
CompleteMeansPresent == said => \A l \in LayerNames : tree[l] # "absent"

\* No run, not even an interrupted one, loses a layer an earlier run has brought
\* to its branch.
FetchedLayersStay ==
  [][\A l \in LayerNames : tree[l] = "wanted" => tree'[l] = "wanted"]_vars
=============================================================================

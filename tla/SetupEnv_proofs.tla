--------------------------- MODULE SetupEnv_proofs ---------------------------
(***************************************************************************)
(* setup.sh, whatever fails and whenever it is killed: what it says is     *)
(* true of the directories, and it never spoils a layer it has fetched.    *)
(***************************************************************************)
EXTENDS SetupEnv, TLAPS

\* The sequence of layers, once and for all.
LEMMA LayerCount == Len(Layers) = 3 /\ DOMAIN Layers = 1..3
  BY DEF Layers

LEMMA LayersNamed ==
  /\ \A n \in 1..3 : Layers[n] \in LayerNames
  /\ \A l \in LayerNames : \E n \in 1..3 : l = Layers[n]
  BY LayerCount DEF LayerNames

LEMMA TypeInit == Init => TypeOK
  <1> SUFFICES ASSUME Init PROVE TypeOK
    OBVIOUS
  <1>1. tree \in [LayerNames -> Trees]
    BY DEF Init, Trees
  <1>2. i \in 1..(Len(Layers) + 1)
    BY LayerCount DEF Init
  <1> QED
    BY <1>1, <1>2 DEF Init, TypeOK

\* A layer's directory is written only while the script is at that layer.
LayerHere == pc \in {"clone", "checkout"} => i <= Len(Layers)

LEMMA TypeStep == TypeOK /\ LayerHere /\ [Next]_vars => TypeOK' /\ LayerHere'
  <1> SUFFICES ASSUME TypeOK, LayerHere, [Next]_vars PROVE TypeOK' /\ LayerHere'
    OBVIOUS
  <1> USE LayerCount DEF TypeOK, LayerHere
  <1>1. CASE Run \/ Look \/ Complete
    <2>1. i' \in 1..(Len(Layers) + 1)
      BY <1>1 DEF Run, Look, Complete
    <2>2. tree' = tree
      BY <1>1 DEF Run, Look, Complete
    <2>3. /\ pc' \in {"idle", "next", "clone"} /\ said' \in BOOLEAN
          /\ pc' = "clone" => i' <= Len(Layers)
      BY <1>1 DEF Run, Look, Complete
    <2> QED
      BY <2>1, <2>2, <2>3
  <1>2. CASE Cloned
    BY <1>2 DEF Cloned, Trees
  <1>3. CASE CheckedOut
    <2>1. i' \in 1..(Len(Layers) + 1) /\ pc' = "next" /\ said' = said
      BY <1>3 DEF CheckedOut
    <2>2. tree' \in [LayerNames -> Trees]
      BY <1>3 DEF CheckedOut, Trees
    <2> QED
      BY <2>1, <2>2
  <1>4. CASE CloneFails \/ CheckoutFails
    BY <1>4 DEF CloneFails, CheckoutFails
  <1>5. CASE Killed
    BY <1>5 DEF Killed, Trees
  <1>6. CASE UNCHANGED vars
    BY <1>6 DEF vars
  <1> QED
    BY <1>1, <1>2, <1>3, <1>4, <1>5, <1>6 DEF Next

\* The script and the directories keep their types: it is never past the layer after
\* the last one (setup.sh:19-44).
THEOREM Typing == Spec => []TypeOK
<1>1. Init => LayerHere
  BY DEF Init, LayerHere
<1> QED
  BY <1>1, TypeInit, TypeStep, PTL DEF Spec

-----------------------------------------------------------------------------
\* Every layer that is behind it is there, and it clones only into a directory that
\* is not.
FetchInv ==
  /\ TypeOK /\ LayerHere
  /\ pc # "idle" => \A n \in 1..(i - 1) : tree[Layers[n]] # "absent"
  /\ pc = "clone" => tree[Layer] = "absent"
  /\ said => pc = "idle" /\ \A l \in LayerNames : tree[l] # "absent"

LEMMA FetchInit == Init => FetchInv
  BY TypeInit DEF Init, FetchInv, LayerHere

LEMMA FetchStep == FetchInv /\ [Next]_vars => FetchInv'
  <1> SUFFICES ASSUME FetchInv, [Next]_vars PROVE FetchInv'
    OBVIOUS
  <1>1. TypeOK' /\ LayerHere'
    BY TypeStep DEF FetchInv
  <1>2. i \in 1..4 /\ tree \in [LayerNames -> Trees]
    BY LayerCount DEF FetchInv, TypeOK
  <1> USE <1>1, <1>2, LayerCount DEF FetchInv, Layer
  <1>3. CASE Run
    BY <1>3 DEF Run
  <1>4. CASE Look
    <2>1. ASSUME NEW n \in 1..i, tree[Layers[i]] # "absent"
          PROVE  tree[Layers[n]] # "absent"
      BY <1>4, <2>1 DEF Look
    <2> QED
      BY <1>4, <2>1 DEF Look
  <1>5. CASE Cloned \/ CheckedOut
    <2>1. i \in 1..3 /\ Layers[i] \in LayerNames /\ ~said
      BY <1>5, LayersNamed DEF Cloned, CheckedOut, LayerHere
    <2>2. PICK new \in {"default", "wanted"} : tree' = [tree EXCEPT ![Layers[i]] = new]
      BY <1>5 DEF Cloned, CheckedOut
    <2>3. tree'[Layers[i]] # "absent"
          /\ \A l \in LayerNames : tree[l] # "absent" => tree'[l] # "absent"
      BY <2>1, <2>2
    <2>4. \A n \in 1..i : tree'[Layers[n]] # "absent"
      BY <1>5, <2>1, <2>3, LayersNamed DEF Cloned, CheckedOut
    <2>5. pc' \in {"next", "checkout"} /\ i' \in {i, i + 1} /\ said' = said
      BY <1>5 DEF Cloned, CheckedOut
    <2>6. ASSUME NEW n \in 1..(i' - 1) PROVE n \in 1..i
      <3>1. i' = i \/ i' = i + 1
        BY <2>5
      <3> QED
        BY <2>1, <2>6, <3>1
    <2>7. pc' # "clone" /\ ~said'
      BY <2>1, <2>5
    <2> HIDE DEF Layer
    <2> QED
      BY <2>4, <2>6, <2>7
  <1>6. CASE Complete
    BY <1>6, LayersNamed DEF Complete
  <1>7. CASE CloneFails \/ CheckoutFails
    BY <1>7 DEF CloneFails, CheckoutFails
  <1>8. CASE Killed
    BY <1>8 DEF Killed
  <1>9. CASE UNCHANGED vars
    BY <1>9 DEF vars
  <1> QED
    BY <1>3, <1>4, <1>5, <1>6, <1>7, <1>8, <1>9 DEF Next

LEMMA FetchInvariant == Spec => []FetchInv
  BY FetchInit, FetchStep, PTL DEF Spec

\* "Setup Complete!" is said only when every layer has a directory, after any runs
\* that failed or were killed (setup.sh:46-71).
THEOREM NothingAbsent == Spec => []CompleteMeansPresent
<1>1. FetchInv => CompleteMeansPresent
  BY DEF FetchInv, CompleteMeansPresent
<1> QED
  BY <1>1, FetchInvariant, PTL

\* A layer that is on its branch stays there, whatever happens to later runs
\* (setup.sh:20-36).
THEOREM Kept == Spec => FetchedLayersStay
<1> DEFINE Stays == \A l \in LayerNames : tree[l] = "wanted" => tree'[l] = "wanted"
<1>1. FetchInv /\ [Next]_vars => [Stays]_vars
  <2> SUFFICES ASSUME FetchInv, Next PROVE Stays
    BY DEF vars
  <2> USE LayerCount DEF FetchInv, TypeOK, LayerHere, Layer
  <2>1. CASE Run \/ Look \/ Complete \/ CloneFails \/ CheckoutFails
    BY <2>1 DEF Run, Look, Complete, CloneFails, CheckoutFails
  <2>2. CASE Cloned
    BY <2>2 DEF Cloned
  <2>3. CASE CheckedOut
    BY <2>3 DEF CheckedOut
  <2>4. CASE Killed
    BY <2>4 DEF Killed
  <2> QED
    BY <2>1, <2>2, <2>3, <2>4 DEF Next
<1> QED
  BY <1>1, FetchInvariant, PTL DEF Spec, FetchedLayersStay
=============================================================================

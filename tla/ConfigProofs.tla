----------------------------- MODULE ConfigProofs -----------------------------
(***************************************************************************)
(* The settings, for every set of channels, every way their tree changes    *)
(* and every choice of what the buttons may show: their types, that what    *)
(* the members say is in force and saved, and where the untuned channel is. *)
(***************************************************************************)
EXTENDS Config, TLAPS

\* A listed channel is below Root or a listed channel, and nothing is below itself.
LEMMA TreeType ==
    ASSUME NEW t \in Trees
    PROVE  /\ DOMAIN t \subseteq Channel
           /\ t \in [DOMAIN t -> DOMAIN t \cup {Root}]
           /\ \A S \in (SUBSET DOMAIN t) \ {{}} : \E c \in S : t[c] \notin S
  BY DEF Trees

LEMMA NoTree == <<>> \in Trees /\ DOMAIN <<>> = {}
<1> DEFINE E == {}
<1>1. DOMAIN <<>> = E /\ <<>> \in [E -> E \cup {Root}]
  OBVIOUS
<1>2. (SUBSET E) \ {{}} = {}
  OBVIOUS
<1> QED
  BY <1>1, <1>2 DEF Trees

\* Every listed channel is below Root: the others would have none below Root or a channel
\* that is.
LEMMA AllBelowRoot ==
    ASSUME NEW t \in Trees, NEW x \in DOMAIN t
    PROVE  x \in Below(t, Root)
<1> SUFFICES ASSUME NEW S \in SUBSET DOMAIN t,
                    \A y \in DOMAIN t : t[y] \in S \cup {Root} => y \in S,
                    x \notin S
             PROVE  FALSE
  BY DEF Below
<1>1. DOMAIN t \ S \in (SUBSET DOMAIN t) \ {{}}
  OBVIOUS
<1>2. PICK c \in DOMAIN t \ S : t[c] \notin DOMAIN t \ S
  BY <1>1, TreeType
<1>3. t[c] \in S \cup {Root}
  BY <1>2, TreeType
<1> QED
  BY <1>2, <1>3

(***************************************************************************)
(* What the second tree was filled with is a tree below the root channel of *)
(* its own: nothing in it hangs on a channel it leaves out.                 *)
(***************************************************************************)
LEMMA BranchOnItsOwn ==
    ASSUME NEW t, NEW r, NEW f, f = [c \in Below(t, r) |-> t[c]], NEW x \in DOMAIN f
    PROVE  x \in Below(f, r)
<1> SUFFICES ASSUME NEW S \in SUBSET DOMAIN f,
                    \A y \in DOMAIN f : f[y] \in S \cup {r} => y \in S
             PROVE  x \in S
  BY DEF Below
<1>1. x \in Below(t, r) /\ S \subseteq DOMAIN t
  BY DEF Below
<1>2. ASSUME NEW y \in DOMAIN t, t[y] \in S \cup {r} PROVE y \in Below(t, r)
  <2>1. t[y] \in Below(t, r) \cup {r}
    BY <1>2
  <2> QED
    BY <2>1 DEF Below
<1>3. \A y \in DOMAIN t : t[y] \in S \cup {r} => y \in S
  BY <1>2
<1> QED
  BY <1>1, <1>3 DEF Below

(***************************************************************************)
(* Channels come and go, but as long as none of that branch is moved, what  *)
(* is left of it is below the root channel still.                           *)
(***************************************************************************)
LEMMA BranchKept ==
    ASSUME NEW r, NEW f, \A x \in DOMAIN f : x \in Below(f, r), DOMAIN f \subseteq Channel,
           NEW s \in Trees, \A c \in DOMAIN s \cap DOMAIN f : s[c] = f[c],
           NEW x \in DOMAIN s \cap DOMAIN f
    PROVE  x \in Below(s, r)
<1> SUFFICES ASSUME NEW S \in SUBSET DOMAIN s,
                    \A y \in DOMAIN s : s[y] \in S \cup {r} => y \in S
             PROVE  x \in S
  BY DEF Below
<1> DEFINE U == (S \cap DOMAIN f) \cup (DOMAIN f \ DOMAIN s)
<1>1. ASSUME NEW y \in DOMAIN f, f[y] \in U \cup {r} PROVE y \in U
  <2>1. CASE y \in DOMAIN s
    <3>1. s[y] = f[y] /\ s[y] \in DOMAIN s \cup {Root}
      BY <2>1, TreeType
    <3>2. f[y] \in S \cup {r}
      BY <1>1, <3>1, ConfigAssumption
    <3> QED
      BY <2>1, <3>1, <3>2
  <2>2. CASE y \notin DOMAIN s
    BY <2>2
  <2> QED
    BY <2>1, <2>2
<1>2. x \in U
  BY <1>1 DEF Below
<1> QED
  BY <1>2

\* A list of channels below one begins with it.
LEMMA ListType ==
    ASSUME NEW ch \in Node, tree \in Trees
    PROVE  /\ ChannelList(ch) \subseteq Node
           /\ ChannelList(ch) # {} => ch \in ChannelList(ch)
  BY TreeType DEF ChannelList, Below, Node

\* Every listed channel is on the list of Root.
LEMMA RootList ==
    ASSUME NEW ch \in listed \cup {Root}, tree \in Trees
    PROVE  ch \in ChannelList(Root)
  BY AllBelowRoot DEF ChannelList, listed

-----------------------------------------------------------------------------
(***************************************************************************)
(* The untuned channel is one of those on offer: the root channel, or one   *)
(* that was below it when the tree was filled.                              *)
(***************************************************************************)
OnOffer ==
    rootTree # {} => /\ untunedTree = {root} \cup DOMAIN filled
                     /\ untuned \in untunedTree
                     /\ \A x \in DOMAIN filled : x \in Below(filled, root)

IInv == TypeOK /\ OnOffer

\* The two trees are filled together.
LEMMA SelectOffers ==
    ASSUME IInv, NEW r \in listed \cup {Root}, Select(r)
    PROVE  /\ root' \in Node /\ untuned' \in Node /\ untunedTree' \subseteq Node
           /\ untuned' \in untunedTree' /\ root' = r
           /\ untunedTree' = {root'} \cup DOMAIN filled'
           /\ \A x \in DOMAIN filled' : x \in Below(filled', root')
           /\ DOMAIN filled' \subseteq Channel /\ filled' \in [DOMAIN filled' -> Node]
<1>1. tree \in Trees /\ listed \subseteq Channel /\ r \in Node
  BY TreeType DEF IInv, TypeOK, listed, Node
<1>2. /\ root' = r /\ untuned' = Offered(r, untuned)
      /\ untunedTree' = {r} \cup Below(tree, r)
      /\ filled' = [c \in Below(tree, r) |-> tree[c]]
  BY DEF Select, ChannelList
<1>3. untuned' \in {r} \cup Below(tree, r)
  BY <1>2 DEF Offered
<1>4. /\ Below(tree, r) \subseteq listed
      /\ \A c \in Below(tree, r) : tree[c] \in Node
  BY <1>1, TreeType DEF Below, listed, Node
<1>5. \A x \in DOMAIN filled' : x \in Below(filled', root')
  BY <1>2, BranchOnItsOwn
<1> QED
  BY <1>1, <1>2, <1>3, <1>4, <1>5 DEF Node

LEMMA PopulateOffers ==
    ASSUME IInv, PopulateChannelList
    PROVE  /\ root' \in Node /\ untuned' \in Node
           /\ rootTree' \subseteq Node /\ untunedTree' \subseteq Node
           /\ root' \in rootTree' /\ untuned' \in untunedTree'
           /\ untunedTree' = {root'} \cup DOMAIN filled'
           /\ \A x \in DOMAIN filled' : x \in Below(filled', root')
           /\ DOMAIN filled' \subseteq Channel /\ filled' \in [DOMAIN filled' -> Node]
<1>1. PICK r \in listed \cup {Root} : Select(r) /\ rootTree' = ChannelList(Root)
  BY DEF PopulateChannelList
<1>2. tree \in Trees /\ Root \in Node
  BY DEF IInv, TypeOK, Node
<1>3. r \in rootTree' /\ rootTree' \subseteq Node
  BY <1>1, <1>2, RootList, ListType
<1> QED
  BY <1>1, <1>3, SelectOffers

LEMMA InitInv == Init => IInv
<1> SUFFICES ASSUME Init PROVE IInv
  OBVIOUS
<1>1. Defaults \in Settings
  BY ConfigAssumption DEF Defaults, Settings, Mode
<1>2. <<>> \in Trees /\ DOMAIN <<>> = {} /\ <<>> \in [{} -> Node]
  BY NoTree
<1> QED
  BY <1>1, <1>2, ConfigAssumption DEF Init, IInv, TypeOK, OnOffer, Defaults, Mode

LEMMA EndsInv == IInv /\ Ends => IInv'
<1> SUFFICES ASSUME IInv, Ends PROVE IInv'
  OBVIOUS
<1>1. Defaults \in Settings
  BY ConfigAssumption DEF Defaults, Settings, Mode
<1>2. <<>> \in Trees /\ DOMAIN <<>> = {} /\ <<>> \in [{} -> Node]
  BY NoTree
<1> QED
  BY <1>1, <1>2, ConfigAssumption DEF Ends, IInv, TypeOK, OnOffer, Defaults, Mode

\* What is saved is a setting.
LEMMA SavedType ==
    ASSUME IInv, NEW s \in Settings, SaveSettings(s)
    PROVE  /\ fields' \in Settings
           /\ saved' \in [set : Settings, root : Node \cup {NotFound},
                          untuned : Node \cup {NotFound}]
  BY DEF IInv, TypeOK, SaveSettings

LEMMA ModeType ==
    ASSUME IInv, NEW m \in Mode, HandleModeChange(m)
    PROVE  /\ widgets' \in Settings /\ fields' = widgets' /\ menu' \in Mode
           /\ saved' \in [set : Settings, root : Node \cup {NotFound},
                          untuned : Node \cup {NotFound}]
<1>1. widgets' \in Settings
  BY DEF IInv, TypeOK, HandleModeChange, Settings
<1> QED
  BY <1>1, SavedType DEF HandleModeChange, SaveSettings

LEMMA NextInv == IInv /\ [Next]_vars => IInv'
<1> SUFFICES ASSUME IInv, [Next]_vars PROVE IInv'
  OBVIOUS
<1>1. CASE Start
  <2>1. widgets' \in Settings /\ widgets'.mode \in Mode /\ widgets'.freq \in FrequencyModes
    <3>1. saved.set \in Settings /\ StartMode(saved.set) \in Mode
      BY DEF IInv, TypeOK, Settings, StartMode, Mode
    <3> QED
      BY <1>1, <3>1 DEF Start, Settings
  <2>2. saved' \in [set : Settings, root : Node \cup {NotFound}, untuned : Node \cup {NotFound}]
    BY <1>1, <2>1 DEF Start, IInv, TypeOK
  <2>3. root' \in Node \cup {NotFound} /\ untuned' \in Node \cup {NotFound}
    BY <1>1 DEF Start, IInv, TypeOK
  <2>4. DOMAIN filled' \subseteq Channel /\ filled' \in [DOMAIN filled' -> Node]
    BY <1>1, NoTree DEF Start
  <2> QED
    BY <1>1, <2>1, <2>2, <2>3, <2>4, ConfigAssumption DEF Start, IInv, TypeOK, OnOffer
<1>2. CASE Exit
  BY <1>2, EndsInv DEF Exit
<1>3. CASE LoadComplete
  BY <1>3, PopulateOffers DEF LoadComplete, IInv, TypeOK, OnOffer, force
<1>4. ASSUME NEW t \in Trees, ListChanges(t) PROVE IInv'
  BY <1>4 DEF ListChanges, IInv, TypeOK, OnOffer, choice, trees, force
<1>5. CASE Exec
  BY <1>5, PopulateOffers DEF Exec, IInv, TypeOK, OnOffer, force
<1>6. CASE Click
  <2>1. widgets' \in Settings
    BY <1>6, ConfigAssumption DEF Click
  <2> QED
    BY <1>6, <2>1 DEF Click, IInv, TypeOK, OnOffer, choice, trees, force
<1>7. CASE Accept \/ Reject
  <2>1. PICK m \in Mode : CloseDialog(m)
    BY <1>7 DEF Accept, Reject, IInv, TypeOK, Settings
  <2>2. /\ widgets' \in Settings /\ fields' = widgets' /\ menu' \in Mode
        /\ saved' \in [set : Settings, root : Node \cup {NotFound},
                       untuned : Node \cup {NotFound}]
    BY <2>1, ModeType DEF CloseDialog
  <2>3. spacing' \in Spacings /\ lastFreqMode' \in FrequencyModes
    BY <2>1, <2>2 DEF CloseDialog, Settings
  <2> QED
    BY <2>1, <2>2, <2>3 DEF CloseDialog, IInv, TypeOK, OnOffer, choice, trees
<1>8. ASSUME NEW ch \in Node, NewRoot(ch) PROVE IInv'
  <2>1. CASE ChannelList(ch) = {}
    BY <1>8, <2>1, EndsInv DEF NewRoot
  <2>2. CASE ChannelList(ch) # {}
    <3>1. ch \in listed \cup {Root} /\ ch \in rootTree /\ Select(ch)
      BY <1>8, <2>2 DEF NewRoot, ChannelList
    <3>2. UNCHANGED <<running, initialising, open, tree, saved, fields, widgets, rootTree,
                      menu, spacing, lastFreqMode, opened>>
      BY <1>8, <2>2 DEF NewRoot, force
    <3>3. /\ root' \in Node /\ untuned' \in Node /\ untunedTree' \subseteq Node
          /\ untuned' \in untunedTree' /\ root' = ch
          /\ untunedTree' = {root'} \cup DOMAIN filled'
          /\ \A x \in DOMAIN filled' : x \in Below(filled', root')
          /\ DOMAIN filled' \subseteq Channel /\ filled' \in [DOMAIN filled' -> Node]
      BY <3>1, SelectOffers
    <3> QED
      BY <3>1, <3>2, <3>3 DEF IInv, TypeOK, OnOffer
  <2> QED
    BY <2>1, <2>2
<1>9. ASSUME NEW ch \in Node, NewUntuned(ch) PROVE IInv'
  BY <1>9 DEF NewUntuned, IInv, TypeOK, OnOffer, trees, force
<1>10. ASSUME NEW m \in Mode, ModeCommand(m) PROVE IInv'
  <2>1. /\ widgets' \in Settings /\ fields' = widgets' /\ menu' \in Mode
        /\ saved' \in [set : Settings, root : Node \cup {NotFound},
                       untuned : Node \cup {NotFound}]
    BY <1>10, ModeType DEF ModeCommand
  <2> QED
    BY <1>10, <2>1 DEF ModeCommand, IInv, TypeOK, OnOffer, choice, trees
<1>11. CASE InfoDetailed
  <2>1. widgets \in Settings
    BY DEF IInv, TypeOK
  <2>2. /\ fields' \in Settings
        /\ saved' \in [set : Settings, root : Node \cup {NotFound},
                       untuned : Node \cup {NotFound}]
    BY <1>11, <2>1, SavedType DEF InfoDetailed
  <2> QED
    BY <1>11, <2>2 DEF InfoDetailed, IInv, TypeOK, OnOffer, choice, trees, force
<1>12. CASE UNCHANGED vars
  BY <1>12 DEF vars, IInv, TypeOK, OnOffer
<1> QED
  BY <1>1, <1>2, <1>3, <1>4, <1>5, <1>6, <1>7, <1>8, <1>9, <1>10, <1>11, <1>12 DEF Next

LEMMA Invariant == Spec => []IInv
  BY InitInv, NextInv, PTL DEF Spec

\* The settings keep their types, and what is selected is in the tree it is shown in.
THEOREM SettingsTypes == Spec => []TypeOK
<1>1. IInv => TypeOK
  BY DEF IInv
<1> QED
  BY <1>1, Invariant, PTL

(***************************************************************************)
(* However the two channels were chosen and channels come and go, automatic *)
(* mode is not given an untuned channel outside the root channel, unless a  *)
(* channel that was on offer has been moved on the server since.            *)
(***************************************************************************)
THEOREM UntunedStaysUnderRoot == Spec => []UntunedUnderRoot
<1>1. ASSUME IInv PROVE UntunedUnderRoot
  <2> SUFFICES ASSUME rootTree # {}, Unmoved, untuned \in listed, untuned # root
               PROVE  untuned \in Below(tree, root)
    BY DEF UntunedUnderRoot
  <2>1. /\ untuned \in DOMAIN filled /\ DOMAIN filled \subseteq Channel /\ tree \in Trees
        /\ \A x \in DOMAIN filled : x \in Below(filled, root)
    BY <1>1 DEF IInv, TypeOK, OnOffer
  <2>2. \A c \in DOMAIN tree \cap DOMAIN filled : tree[c] = filled[c]
    BY DEF Unmoved, listed
  <2> QED
    BY <2>1, <2>2, BranchKept DEF listed
<1> QED
  BY <1>1, Invariant, PTL

-----------------------------------------------------------------------------
(***************************************************************************)
(* With the dialog closed the settings are in force.                        *)
(***************************************************************************)
LEMMA InForceStep == IInv /\ InForce /\ [Next]_vars => InForce'
<1> SUFFICES ASSUME IInv, InForce, [Next]_vars PROVE InForce'
  OBVIOUS
<1>0. widgets \in Settings /\ fields \in Settings /\ saved.set \in Settings
  BY DEF IInv, TypeOK
<1>1. CASE Start
  <2>1. /\ menu' = widgets'.mode /\ lastFreqMode' = widgets'.freq
        /\ fields' = widgets' /\ ~ opened'
    BY <1>1 DEF Start
  <2> QED
    BY <2>1 DEF InForce
<1>2. CASE Exit \/ (\E ch \in Node : NewRoot(ch) /\ ChannelList(ch) = {})
  BY <1>2 DEF Exit, NewRoot, Ends, InForce
<1>3. CASE LoadComplete \/ \E t \in Trees : ListChanges(t)
  BY <1>3 DEF LoadComplete, ListChanges, InForce, force
<1>4. CASE Exec \/ Click
  BY <1>4 DEF Exec, Click, InForce, force
<1>5. CASE Accept \/ Reject
  <2>1. PICK m \in Mode : CloseDialog(m)
    BY <1>5 DEF Accept, Reject, IInv, TypeOK, Settings
  <2>2. widgets'.mode = m
    BY <1>0, <2>1 DEF CloseDialog, HandleModeChange, Settings
  <2> QED
    BY <2>1, <2>2 DEF CloseDialog, HandleModeChange, SaveSettings, InForce
<1>6. CASE \E ch \in Node : (NewRoot(ch) /\ ChannelList(ch) # {}) \/ NewUntuned(ch)
  <2>1. open'
    BY <1>6 DEF NewRoot, NewUntuned
  <2> QED
    BY <2>1 DEF InForce
<1>7. ASSUME NEW m \in Mode, ModeCommand(m) PROVE InForce'
  <2>1. widgets'.mode = m /\ widgets'.freq = widgets.freq /\ widgets'.spacing = widgets.spacing
    BY <1>0, <1>7 DEF ModeCommand, HandleModeChange, Settings
  <2> QED
    BY <1>7, <2>1 DEF ModeCommand, HandleModeChange, SaveSettings, InForce
<1>8. CASE InfoDetailed
  BY <1>8 DEF InfoDetailed, SaveSettings, InForce, force
<1>9. CASE UNCHANGED vars
  BY <1>9 DEF vars, InForce
<1> QED
  BY <1>1, <1>2, <1>3, <1>4, <1>5, <1>6, <1>7, <1>8, <1>9 DEF Next

\* What the members say is in force whenever the dialog is closed.
THEOREM SettingsInForce == Spec => []InForce
<1>1. Init => InForce
  BY DEF Init, InForce
<1> QED
  BY <1>1, InForceStep, Invariant, PTL DEF Spec

-----------------------------------------------------------------------------
(***************************************************************************)
(* Nothing is unsaved while the dialog is closed.  With it open the members *)
(* for the settings are saved as well: only the buttons, and the channels   *)
(* just selected, are ahead of the ini file.                                *)
(***************************************************************************)
SavedInv ==
    /\ running => saved.set = fields
    /\ NothingUnsaved

\* Whatever saves the settings saves the two channels too.
LEMMA SavesAll ==
    ASSUME NEW s, SaveSettings(s), UNCHANGED choice
    PROVE  saved'.set = fields' /\ saved'.root = root' /\ saved'.untuned = untuned'
  BY DEF SaveSettings, choice

\* A load takes the saved root channel or Root, and the saved untuned channel or that.
LEMMA LoadSelects ==
    ASSUME PopulateChannelList
    PROVE  root' \in {root, Root} /\ untuned' \in {untuned, root'}
  BY DEF PopulateChannelList, Select, Offered

LEMMA SavedStep == IInv /\ SavedInv /\ [Next]_vars => SavedInv'
<1> SUFFICES ASSUME IInv, SavedInv, [Next]_vars PROVE SavedInv'
  OBVIOUS
<1>1. CASE Start
  <2>1. saved \in [set : Settings, root : Node \cup {NotFound}, untuned : Node \cup {NotFound}]
    BY DEF IInv, TypeOK
  <2>2. /\ saved'.set = fields' /\ saved'.root = root' /\ saved'.untuned = untuned'
    BY <1>1, <2>1 DEF Start
  <2> QED
    BY <2>2 DEF SavedInv, NothingUnsaved
<1>2. CASE Exit \/ (\E ch \in Node : NewRoot(ch) /\ ChannelList(ch) = {})
  BY <1>2 DEF Exit, NewRoot, Ends, SavedInv, NothingUnsaved
<1>3. CASE LoadComplete
  <2>1. root' \in {root, Root} /\ untuned' \in {untuned, root'}
    BY <1>3, LoadSelects DEF LoadComplete
  <2>2. UNCHANGED <<running, open, saved, fields>> /\ initialising /\ ~ initialising'
    BY <1>3 DEF LoadComplete
  <2> QED
    BY <2>1, <2>2 DEF SavedInv, NothingUnsaved
<1>4. CASE Exec \/ Click \/ \E ch \in Node : (NewRoot(ch) /\ ChannelList(ch) # {})
                                               \/ NewUntuned(ch)
  <2>1. open' /\ UNCHANGED <<running, saved, fields>>
    BY <1>4 DEF Exec, Click, NewRoot, NewUntuned
  <2> QED
    BY <2>1 DEF SavedInv, NothingUnsaved
<1>5. CASE \E t \in Trees : ListChanges(t)
  BY <1>5 DEF ListChanges, choice, SavedInv, NothingUnsaved
<1>6. CASE Accept \/ Reject \/ (\E m \in Mode : ModeCommand(m)) \/ InfoDetailed
  <2>1. UNCHANGED choice /\ \E s : SaveSettings(s)
    BY <1>6 DEF Accept, Reject, CloseDialog, ModeCommand, InfoDetailed, HandleModeChange
  <2>2. saved'.set = fields' /\ saved'.root = root' /\ saved'.untuned = untuned'
    BY <2>1, SavesAll
  <2> QED
    BY <2>2 DEF SavedInv, NothingUnsaved
<1>7. CASE UNCHANGED vars
  BY <1>7 DEF vars, SavedInv, NothingUnsaved
<1> QED
  BY <1>1, <1>2, <1>3, <1>4, <1>5, <1>6, <1>7 DEF Next

(***************************************************************************)
(* Whenever the dialog is closed, the ini file holds what the members say.  *)
(***************************************************************************)
THEOREM SettingsSaved == Spec => []NothingUnsaved
<1>1. Init => SavedInv
  BY DEF Init, SavedInv, NothingUnsaved
<1>2. SavedInv => NothingUnsaved
  BY DEF SavedInv
<1> QED
  BY <1>1, <1>2, SavedStep, Invariant, PTL DEF Spec
=============================================================================

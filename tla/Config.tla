------------------------------- MODULE Config -------------------------------
(***************************************************************************)
(* The settings of the plugin: the configuration dialog of config.cpp, the  *)
(* ini file, and the handlers of BFSGSimCom.cpp that bring a setting into   *)
(* force.                                                                   *)
(*                                                                         *)
(* A setting is kept in four places: the ini file (saved), the members the  *)
(* rest of the plugin asks for (fields, root, untuned), the widgets, and    *)
(* what has been made of it (menu, spacing, lastFreqMode).  The dialog runs   *)
(* an event loop of its own: hotkeys and channel events are handled while   *)
(* it is open.                                                              *)
(***************************************************************************)
EXTENDS FiniteSets

CONSTANTS Channel,       \* the channel ids of the servers
          Root,          \* CHANNEL_ROOT
          NotFound,      \* CHANNEL_ID_NOT_FOUND
          Spacings,      \* the choices of "8.33 kHz": "auto", "force833", "force25"
          FrequencyModes,\* the choices of "Frequency mode": "civil", "military"
          Combinations   \* bound: <<what is saved, what the user makes the buttons show>>

Mode == {"DISABLED", "MANUAL", "AUTO"}

Node == Channel \cup {Root}

Settings == [mode : Mode, restart : BOOLEAN, move : BOOLEAN,
             spacing : Spacings, freq : FrequencyModes]

ASSUME ConfigAssumption ==
    /\ Root \notin Channel /\ NotFound \notin Node
    /\ "auto" \in Spacings /\ "civil" \in FrequencyModes
    /\ Combinations \subseteq Settings \X Settings

VARIABLES
    running,      \* the plugin is loaded
    initialising, \* the channels have not been loaded for the first time
    open,         \* the dialog is
    tree,         \* the channels getChannelList(CHANNEL_ROOT) returns -> the one above
    saved,        \* the ini file
    fields,       \* the Config members mode, blRestartInManualMode, blUntuned,
                  \*   spacing833Mode, frequencyMode
    root,         \* iRoot
    untuned,      \* iUntuned
    widgets,      \* what the buttons show
    rootTree,     \* the entries of treeParentChannel
    untunedTree,  \* the entries of treeUntunedChannel
    menu,         \* the mode the menu offers no more
    spacing,      \* simComConfig: the spacing the worker forces
    lastFreqMode, \* the mode the next choice of a frequency mode is compared with
    opened,       \* history: the dialog has been open since the start
    filled        \* history: the part of tree treeUntunedChannel was last filled with

choice == <<root, untuned>>
trees  == <<rootTree, untunedTree, filled>>
force  == <<menu, spacing, lastFreqMode>>
vars   == <<running, initialising, open, tree, saved, fields, root, untuned, widgets,
            rootTree, untunedTree, menu, spacing, lastFreqMode, opened, filled>>

Defaults == [mode |-> "DISABLED", restart |-> FALSE, move |-> FALSE,
             spacing |-> "auto", freq |-> "civil"]

-----------------------------------------------------------------------------
(***************************************************************************)
(* The trees the database may hold: each channel below a listed one or      *)
(* Root, and none below itself.                                             *)
(***************************************************************************)
Trees ==
    {t \in UNION {[L -> L \cup {Root}] : L \in SUBSET Channel} :
        \A S \in (SUBSET DOMAIN t) \ {{}} : \E c \in S : t[c] \notin S}

\* The channels below ch: the least set its children, and theirs, are in.
Below(t, ch) ==
    {x \in DOMAIN t :
        \A S \in SUBSET DOMAIN t :
            (\A y \in DOMAIN t : t[y] \in S \cup {ch} => y \in S) => x \in S}

listed == DOMAIN tree

(***************************************************************************)
(* getChannelList(ch): the channel, and the listed ones below it; of a      *)
(* channel the database does not know, nothing.                             *)
(***************************************************************************)
ChannelList(ch) == IF ch \in listed \cup {Root} THEN {ch} \cup Below(tree, ch) ELSE {}

-----------------------------------------------------------------------------
Init ==
    /\ running = FALSE /\ initialising = TRUE /\ open = FALSE
    /\ tree = <<>> /\ filled = <<>>
    /\ saved = [set |-> Defaults, root |-> NotFound, untuned |-> NotFound]
    /\ fields = Defaults /\ widgets = Defaults
    /\ root = NotFound /\ untuned = NotFound
    /\ rootTree = {} /\ untunedTree = {}
    /\ menu = Defaults.mode /\ spacing = Defaults.spacing /\ lastFreqMode = Defaults.freq
    /\ opened = FALSE

\* saveSettings stores what the widgets show, and takes it over.
SaveSettings(shown) ==
    /\ fields' = shown
    /\ saved' = [set |-> shown, root |-> root, untuned |-> untuned]

\* Config::setMode and the rest of handleModeChange.
HandleModeChange(m) ==
    /\ widgets' = [widgets EXCEPT !.mode = m]
    /\ SaveSettings(widgets')
    /\ menu' = m

-----------------------------------------------------------------------------
\* The constructor: the mode to start with.
StartMode(s) ==
    IF s.mode = "MANUAL" \/ s.restart THEN "MANUAL" ELSE s.mode

(***************************************************************************)
(* ts3plugin_init restores the settings, ts3plugin_initMenus follows with a *)
(* mode change.  The worker's switches are zero (BFSGSimCom.cpp:53).        *)
(***************************************************************************)
Start ==
    /\ ~ running
    /\ running' = TRUE /\ initialising' = TRUE
    /\ root' = saved.root /\ untuned' = saved.untuned
    /\ widgets' = [saved.set EXCEPT !.mode = StartMode(saved.set)]
    /\ fields' = widgets'
    /\ saved' = [saved EXCEPT !.set = widgets']
    /\ menu' = widgets'.mode
    /\ lastFreqMode' = widgets'.freq
    /\ spacing' = "auto"
    /\ rootTree' = {} /\ untunedTree' = {} /\ filled' = <<>>
    /\ opened' = FALSE
    /\ UNCHANGED <<open, tree>>

\* The process is gone with all it held, but for the ini file.
Ends ==
    /\ running' = FALSE /\ initialising' = TRUE /\ open' = FALSE
    /\ tree' = <<>> /\ filled' = <<>>
    /\ fields' = Defaults /\ widgets' = Defaults
    /\ root' = NotFound /\ untuned' = NotFound
    /\ rootTree' = {} /\ untunedTree' = {}
    /\ menu' = Defaults.mode /\ spacing' = Defaults.spacing /\ lastFreqMode' = Defaults.freq
    /\ opened' = FALSE
    /\ UNCHANGED saved

\* TeamSpeak ends, or goes down.
Exit == running /\ Ends

-----------------------------------------------------------------------------
\* Slip: the untuned channel stays, wherever the new root channel is.
OfferedAnyway(r, u) == IF u \in listed THEN u ELSE r

\* newRoot: what the second tree selects below root r.
Offered(r, u) == IF u \in Below(tree, r) THEN u ELSE r

(***************************************************************************)
(* The two trees with root channel r selected: the selection tells newRoot, *)
(* which fills the second tree and so tells newUntuned.                     *)
(***************************************************************************)
Select(r) ==
    /\ root' = r
    /\ untuned' = Offered(r, untuned)
    /\ untunedTree' = ChannelList(r)
    /\ filled' = [c \in Below(tree, r) |-> tree[c]]

PopulateChannelList ==
    /\ rootTree' = ChannelList(Root)
    /\ Select(IF root \in listed THEN root ELSE Root)

\* The last description of the first load has come: BFSGSimCom.cpp:1161-1164.
LoadComplete ==
    /\ running /\ initialising
    /\ initialising' = FALSE
    /\ PopulateChannelList
    /\ UNCHANGED <<running, open, tree, saved, fields, widgets, force, opened>>

\* Channels come, go and move, and other servers use the same ids (see ChannelMirror).
\* Nothing is done about root, untuned or the trees.
ListChanges(t) ==
    /\ running /\ t # tree
    /\ tree' = t
    /\ UNCHANGED <<running, initialising, open, saved, fields, choice, widgets, trees,
                   force, opened>>

-----------------------------------------------------------------------------
(***************************************************************************)
(* The dialog.                                                              *)
(***************************************************************************)
Exec ==
    /\ running /\ ~ open
    /\ open' = TRUE
    /\ PopulateChannelList
    /\ UNCHANGED <<running, initialising, tree, saved, fields, widgets, force, opened>>

\* A button; what modeChanged and untunedChanged disable is out of reach.
Click ==
    /\ open
    /\ \/ \E m \in Mode : widgets' = [widgets EXCEPT !.mode = m]
       \/ widgets.mode = "AUTO" /\ widgets' = [widgets EXCEPT !.restart = ~ @]
       \/ widgets.mode # "DISABLED" /\ widgets' = [widgets EXCEPT !.move = ~ @]
       \/ \E s \in Spacings : widgets' = [widgets EXCEPT !.spacing = s]
       \/ \E f \in FrequencyModes : widgets' = [widgets EXCEPT !.freq = f]
    /\ widgets' # widgets /\ <<fields, widgets'>> \in Combinations
    /\ UNCHANGED <<running, initialising, open, tree, saved, fields, choice, trees, force,
                   opened>>

\* An entry of the first tree.  newRoot takes the first entry of an empty list when
\* the channel has been deleted since the tree was filled, and the client goes down.
NewRoot(ch) ==
    /\ open /\ widgets.mode # "DISABLED"
    /\ ch \in rootTree \ {root}
    /\ IF ChannelList(ch) = {} THEN Ends
       ELSE /\ Select(ch)
            /\ UNCHANGED <<running, initialising, open, tree, saved, fields, widgets,
                           rootTree, force, opened>>

NewUntuned(ch) ==
    /\ open /\ widgets.mode # "DISABLED" /\ widgets.move
    /\ ch \in untunedTree \ {untuned}
    /\ untuned' = ch
    /\ UNCHANGED <<running, initialising, open, tree, saved, fields, root, widgets, trees,
                   force, opened>>

\* Slip: the spacing is left for the next start.
CloseDialogHalf(m) ==
    /\ open' = FALSE
    /\ HandleModeChange(m)
    /\ spacing' = spacing
    /\ lastFreqMode' = fields'.freq
    /\ opened' = TRUE
    /\ UNCHANGED <<running, initialising, tree, choice, trees>>

\* After exec(), in the menu's handler and in ts3plugin_configure: the handlers of
\* the mode, the spacing and the frequency mode, with what is in the members.
CloseDialog(m) ==
    /\ open' = FALSE
    /\ HandleModeChange(m)
    /\ spacing' = fields'.spacing
    /\ lastFreqMode' = fields'.freq
    /\ opened' = TRUE
    /\ UNCHANGED <<running, initialising, tree, choice, trees>>

\* OK saves first; it refuses to move to Root.
Accept ==
    /\ open
    /\ ~ (widgets.move /\ untuned = Root)
    /\ CloseDialog(widgets.mode)

\* Slip: after Cancel nothing is done.
RejectQuietly ==
    /\ open
    /\ open' = FALSE /\ opened' = TRUE
    /\ UNCHANGED <<running, initialising, tree, saved, fields, choice, widgets, trees, force>>

\* Cancel does not restore the widgets; the mode alone is that of the member.
Reject ==
    /\ open
    /\ CloseDialog(fields.mode)

-----------------------------------------------------------------------------
\* The menu, out of reach behind the dialog, or a hotkey.
ModeCommand(m) ==
    /\ running
    /\ HandleModeChange(m)
    /\ UNCHANGED <<running, initialising, open, tree, choice, trees, spacing, lastFreqMode,
                   opened>>

\* setInfoDetailed, by the menu or a hotkey, saves everything.
InfoDetailed ==
    /\ running
    /\ SaveSettings(widgets)
    /\ UNCHANGED <<running, initialising, open, tree, choice, widgets, trees, force, opened>>

-----------------------------------------------------------------------------
Next ==
    \/ Start \/ Exit
    \/ LoadComplete
    \/ \E t \in Trees : ListChanges(t)
    \/ Exec \/ Click \/ Accept \/ Reject
    \/ \E ch \in Node : NewRoot(ch) \/ NewUntuned(ch)
    \/ \E m \in Mode : ModeCommand(m)
    \/ InfoDetailed

Spec == Init /\ [][Next]_vars

-----------------------------------------------------------------------------
TypeOK ==
    /\ running \in BOOLEAN /\ initialising \in BOOLEAN /\ open \in BOOLEAN
    /\ opened \in BOOLEAN
    /\ tree \in Trees
    /\ DOMAIN filled \subseteq Channel /\ filled \in [DOMAIN filled -> Node]
    /\ saved \in [set : Settings, root : Node \cup {NotFound}, untuned : Node \cup {NotFound}]
    /\ fields \in Settings /\ widgets \in Settings
    /\ root \in Node \cup {NotFound} /\ untuned \in Node \cup {NotFound}
    /\ rootTree \subseteq Node /\ untunedTree \subseteq Node
    /\ rootTree # {} => root \in rootTree /\ untuned \in untunedTree
    /\ menu \in Mode /\ spacing \in Spacings /\ lastFreqMode \in FrequencyModes

(***************************************************************************)
(* With the dialog closed, what the members say is in force, although the   *)
(* hotkeys save half-made choices while it is open: the menu offers the     *)
(* other modes (README:178), the buttons show what is saved, the next       *)
(* choice of a frequency mode is compared with the one that is saved, and   *)
(* once the dialog has been open the worker forces the spacing.  In which   *)
(* mode each channel has been loaded is another matter: FrequenciesFresh of *)
(* ChannelMirror.                                                           *)
(***************************************************************************)
InForce ==
    running /\ ~ open
      => /\ menu = fields.mode
         /\ lastFreqMode = fields.freq
         /\ widgets = fields
         /\ opened => spacing = fields.spacing

(***************************************************************************)
(* The untuned channel, while there is one, is the root channel or below it *)
(* at this moment (newRoot, config.cpp:378-394), in whatever order the two  *)
(* were chosen and whatever channels have come and gone since: automatic    *)
(* mode would move the client out of its own reach otherwise.  This ends    *)
(* when a channel the dialog offered below root is moved, or its id belongs *)
(* to another server: nothing looks at the choice again (BFSGSimCom.cpp:    *)
(* 1135-1138) until the trees are filled anew.                              *)
(***************************************************************************)
Unmoved == \A c \in listed \cap DOMAIN filled : tree[c] = filled[c]

UntunedUnderRoot ==
    running /\ rootTree # {} /\ Unmoved /\ untuned \in listed
      => untuned \in {root} \cup Below(tree, root)

(***************************************************************************)
(* With the dialog closed a crash loses nothing: the settings are saved as  *)
(* they are, and so are the two channels, though the hotkeys, both ways of  *)
(* closing the dialog and the load each write some of them.  What the load  *)
(* resets on a server that lacks a chosen channel is not a choice of the    *)
(* user, and is not saved with it.                                          *)
(***************************************************************************)
NothingUnsaved ==
    running /\ ~ open
      => /\ saved.set = fields
         /\ root \in {saved.root, Root} /\ untuned \in {saved.untuned, root}
         /\ initialising => root = saved.root /\ untuned = saved.untuned

-----------------------------------------------------------------------------
(***************************************************************************)
(* What the repository says and the code does not do.  README:71, fixed:    *)
(* "Plugin no longer retains settings between TS3 invocations."  With the   *)
(* dialog closed nobody chooses another root channel, so the one that has   *)
(* been chosen stays saved.                                                 *)
(***************************************************************************)
RootRetained ==
    [][ (~ open /\ saved.root \in Channel) => saved'.root = saved.root ]_vars
=============================================================================

------------------------------- MODULE Screens -------------------------------
(***************************************************************************)
(* The dialogs of the main window other than the dismiss dialog, and how   *)
(* they lie on each other: the alarm dialog, the statistics dialog and the *)
(* friend list with their prompts, alerts and photos.  Every dialog runs   *)
(* in exec(), and every wait for a friend's clock runs an event loop of    *)
(* its own inside the slot that started it.  Those loops are nested on the *)
(* GUI thread's stack: a slot goes on only when all that were entered      *)
(* after it have returned, while the user may close a dialog, and open     *)
(* others, under a wait that one of its slots is in.                       *)
(***************************************************************************)
EXTENDS AlarmDialog, StatDialog, FriendList

CONSTANT MaxFrames      \* bound on the nested event loops

ASSUME ScreensConstants == MaxFrames \in Nat \ {0}

VARIABLE
    frames  \* the nested event loops, the innermost last

vars == <<frames, alarmDialogVars, statDialogVars, friendListVars>>

Windows == {"alarm", "stat", "friends", "prompt", "alert", "picture"}
Waits == {"view", "refresh", "photo"}

(* A loop: what runs it; whether it goes on (a window is open, an answer   *)
(* is awaited) or was told to quit; the friend it is about; and whether    *)
(* the View button that its slot has disabled is one of the rows shown.    *)
Frame(kind, ip) == [kind |-> kind, on |-> TRUE, ip |-> ip, button |-> kind = "view"]

OpenWindows == { i \in DOMAIN frames : frames[i].kind \in Windows /\ frames[i].on }
Shown(kind) == \E i \in OpenWindows : frames[i].kind = kind

(* The window that the others do not block; "main" when no dialog is open. *)
AtFront(kind) ==
    kind = IF OpenWindows = {} THEN "main" ELSE frames[Max(OpenWindows)].kind

FrontFrame == frames[Max(OpenWindows)]

(* A loop that was told to quit returns before anything else happens.      *)
Running == frames # <<>> => Last(frames).on

UserAt(kind) == Running /\ AtFront(kind)

(* Dialogs that are closed, and that no wait is nested in, are gone.       *)
Settled(fs) ==
    SubSeq(fs, 1, Max({ i \in DOMAIN fs : fs[i].on \/ fs[i].kind \in Waits } \union {0}))

Enter(kind, ip) ==
    /\ Len(frames) < MaxFrames
    /\ frames' = Append(frames, Frame(kind, ip))

Close == frames' = Settled([ frames EXCEPT ![Max(OpenWindows)].on = FALSE ])

(* New rows: none of their buttons was disabled by a slot that is running. *)
ButtonsGone(fs) == [ i \in DOMAIN fs |-> [ fs[i] EXCEPT !.button = FALSE ] ]

NoAlarmDialog ==
    /\ calendarOpen' = FALSE /\ held' = "none"
    /\ time' = OnDial([hour |-> 0, minute |-> 0])
    /\ checked' = {} /\ locked' = {} /\ summary' = "none"
    /\ specific' = FALSE /\ date' = AnyDate /\ picked' = AnyDate

NoStatDialog ==
    /\ log' = <<>> /\ rows' = {} /\ filter' = NoDay
    /\ calendar' = [ d \in Days |-> 0 ] /\ month' = 0
    /\ page' = "calendar" /\ button' = "List"

NoFriendList ==
    /\ friends' = <<>> /\ widgets' = <<>> /\ rebuildDue' = FALSE

-----------------------------------------------------------------------------
Init ==
    /\ frames = <<>>
    /\ AlarmDialogInit
    /\ StatDialogInit
    /\ FriendListInit

(* The main window's buttons.                                              *)
OpenFromMain ==
    /\ UserAt("main")
    /\ \/ /\ Enter("alarm", NoAddress) /\ OpenAlarmDialog
          /\ UNCHANGED <<statDialogVars, friendListVars>>
       \/ /\ Enter("stat", NoAddress) /\ \E l \in Logs : OpenStatDialog(l)
          /\ UNCHANGED <<alarmDialogVars, friendListVars>>
       \/ /\ Len(frames) < MaxFrames
          /\ frames' = Append(ButtonsGone(frames), Frame("friends", NoAddress))
          /\ OpenFriendList
          /\ UNCHANGED <<alarmDialogVars, statDialogVars>>

InAlarmDialog ==
    /\ UserAt("alarm")
    /\ AlarmDialogInput
    /\ UNCHANGED <<frames, statDialogVars, friendListVars>>

(* onConfirm() or Cancel; the main window takes what it needs.             *)
CloseAlarmDialog ==
    /\ UserAt("alarm") /\ Idle
    /\ Close
    /\ NoAlarmDialog
    /\ UNCHANGED <<statDialogVars, friendListVars>>

InStatDialog ==
    /\ UserAt("stat")
    /\ StatDialogInput
    /\ UNCHANGED <<frames, alarmDialogVars, friendListVars>>

(* "Refresh", which disables itself while it waits, and a row's "View",    *)
(* which reads a file or asks the friend.                                  *)
FetchForStat ==
    /\ UserAt("stat")
    /\ \/ /\ FrontFrame.ip # NoAddress
          /\ \A i \in DOMAIN frames : i > Max(OpenWindows) => frames[i].kind # "refresh"
          /\ Enter("refresh", FrontFrame.ip)
       \/ /\ page = "list" /\ rows # {}
          /\ IF FrontFrame.ip = NoAddress THEN Enter("picture", NoAddress)
                                          ELSE Enter("photo", FrontFrame.ip)
    /\ UNCHANGED <<alarmDialogVars, statDialogVars, friendListVars>>

CloseStatDialog ==
    /\ UserAt("stat")
    /\ Close
    /\ NoStatDialog
    /\ UNCHANGED <<alarmDialogVars, friendListVars>>

(* "View" of a row; its button is disabled until the slot returns.         *)
PressView ==
    /\ UserAt("friends")
    /\ \E ip \in ToSet(widgets) :
         /\ ~ \E i \in DOMAIN frames : frames[i].ip = ip /\ frames[i].button
         /\ Enter("view", ip)
    /\ UNCHANGED <<alarmDialogVars, statDialogVars, friendListVars>>

DeleteFriend ==
    /\ UserAt("friends")
    /\ \E i \in DOMAIN widgets : PressDel(i)
    /\ UNCHANGED <<frames, alarmDialogVars, statDialogVars>>

PressAdd ==
    /\ UserAt("friends")
    /\ Enter("prompt", NoAddress)
    /\ UNCHANGED <<alarmDialogVars, statDialogVars, friendListVars>>

(* The prompt returns and the rest of the slot of "Add" runs.              *)
AnswerPrompt ==
    /\ UserAt("prompt")
    /\ \/ frames' = Front(frames) /\ UNCHANGED friendListVars
       \/ \E ip \in Addresses :
            \/ AddFriend(ip) /\ frames' = ButtonsGone(Front(frames))
            \/ /\ ip \in ToSet(friends)
               /\ frames' = Append(Front(frames), Frame("alert", NoAddress))
               /\ UNCHANGED friendListVars
    /\ UNCHANGED <<alarmDialogVars, statDialogVars>>

CloseFriendList ==
    /\ UserAt("friends")
    /\ Close
    /\ NoFriendList
    /\ UNCHANGED <<jsonExists, jsonFriends, oldAddress, alarmDialogVars, statDialogVars>>

CloseMessage ==
    /\ UserAt("alert") \/ UserAt("picture")
    /\ Close
    /\ UNCHANGED <<alarmDialogVars, statDialogVars, friendListVars>>

(* The timer of "Del", in whatever loop is running.                        *)
RebuildTimeout ==
    /\ Running
    /\ RebuildList
    /\ frames' = ButtonsGone(frames)
    /\ UNCHANGED <<alarmDialogVars, statDialogVars>>

(* An answer is complete or a timer of 5 s fires: the wait's loop is told  *)
(* to quit, if it is the innermost one or not.                             *)
WaitOver(i) ==
    /\ Running
    /\ frames[i].kind \in Waits /\ frames[i].on
    /\ frames' = [ frames EXCEPT ![i].on = FALSE ]
    /\ UNCHANGED <<alarmDialogVars, statDialogVars, friendListVars>>

\* Mutant of WaitReturns: the loop is not waited for, any wait that is over
\* goes on.
WaitReturnsAnywhere ==
    \E i \in DOMAIN frames :
      /\ frames[i].kind = "view" /\ ~frames[i].on
      /\ frames' = [ frames EXCEPT ![i].kind = "stat", ![i].on = TRUE ]
      /\ \E l \in Logs : OpenStatDialog(l)
      /\ UNCHANGED <<alarmDialogVars, friendListVars>>

(* The innermost loop has quit and the slot goes on: connectAndShow()      *)
(* shows the friend's log or an alert, the Refresh button's slot shows the *)
(* new log, if its dialog is still there, and the photo is shown.          *)
WaitReturns ==
    /\ frames # <<>> /\ ~Running
    /\ LET wait == Last(frames)
           Next1(kind) == frames' = Append(Front(frames), [ wait EXCEPT !.kind = kind, !.on = TRUE ])
       IN
       \/ /\ wait.kind = "view"
          /\ \/ Next1("stat") /\ \E l \in Logs : OpenStatDialog(l)
             \/ Next1("alert") /\ UNCHANGED statDialogVars
       \/ /\ wait.kind = "refresh"
          /\ frames' = Settled(Front(frames))
          /\ IF Shown("stat") THEN \E l \in Logs : LogRefreshed(l)
                              ELSE UNCHANGED statDialogVars
       \/ /\ wait.kind = "photo"
          /\ Next1("picture") /\ UNCHANGED statDialogVars
    /\ UNCHANGED <<alarmDialogVars, friendListVars>>

(* The power fails and the program starts again.                           *)
PowerFails ==
    /\ frames' = <<>>
    /\ NoAlarmDialog /\ NoStatDialog /\ NoFriendList
    /\ \/ UNCHANGED <<jsonExists, jsonFriends>>
       \/ /\ \/ UserAt("friends") \/ UserAt("prompt")
             \/ UserAt("main") /\ ~jsonExists /\ oldAddress # NoAddress
          /\ CutFriendsFile
    /\ UNCHANGED oldAddress

Next ==
    \/ OpenFromMain
    \/ InAlarmDialog \/ CloseAlarmDialog
    \/ InStatDialog \/ FetchForStat \/ CloseStatDialog
    \/ PressView \/ DeleteFriend \/ PressAdd \/ AnswerPrompt \/ CloseFriendList
    \/ CloseMessage
    \/ RebuildTimeout
    \/ \E i \in DOMAIN frames : WaitOver(i)
    \/ WaitReturns
    \/ PowerFails

Spec == Init /\ [][Next]_vars

-----------------------------------------------------------------------------
TypeOK ==
    /\ AlarmDialogTypeOK
    /\ StatDialogTypeOK
    /\ FriendListTypeOK
    /\ frames \in Seq([ kind : Windows \union Waits, on : BOOLEAN,
                         ip : Addresses \union {NoAddress}, button : BOOLEAN ])

(* There are never two open dialogs of one kind, however many waits and    *)
(* dialogs are opened under each other: each dialog's slots may use what   *)
(* its function declares without meeting a second run of that function     *)
(* that the user can reach.                                                *)
OneDialogOfAKind ==
    \A i, j \in OpenWindows : frames[i].kind = frames[j].kind => i = j

(* When no rebuild is due, the rows of the friend list are the friends and *)
(* "Del" removes the one it stands beside.                                 *)
RowsShowFriends == Shown("friends") /\ ~rebuildDue => widgets = friends

(* What the open friend list shows is what the file has, so that a power   *)
(* failure between two presses loses nothing.                              *)
FileIsUpToDate == Shown("friends") => jsonFriends = friends

(* What holds of the windows and of the friend list at every moment, in    *)
(* whatever order the nested loops return: no dialog is open twice, and    *)
(* list, rows and file agree.                                              *)
ScreensInv ==
    /\ TypeOK
    /\ OneDialogOfAKind
    /\ NoFriendTwice
    /\ RowsShowFriends
    /\ FileIsUpToDate

(* Once friends.json exists, an address enters it through "Add" alone: a   *)
(* friend that was deleted does not come back with the migration of the    *)
(* old file, be the list empty or cut by a power failure.                  *)
OnlyAddAdds ==
    [][ \/ ToSet(jsonFriends') \subseteq ToSet(jsonFriends)
        \/ ~jsonExists
        \/ AtFront("prompt") ]_vars
=============================================================================

------------------------------ MODULE TrayStack ------------------------------
(***************************************************************************)
(* The flashing tray icon: CTrayMgr (a stack of flash items, a 250 ms timer *)
(* and the icon it toggles) and CTrayTaskModuleImpl, which pushes one item  *)
(* per thing the user should look at and removes it when it was looked at.  *)
(* Everything runs on the UI thread.                                        *)
(*                                                                          *)
(* An item is the pointer to an SFlashData: its kind and the account (or    *)
(* room) it is about.  The four Is...Flashing functions of the code are one *)
(* and the same loop: they compare the account and never the kind.          *)
(***************************************************************************)
EXTENDS Naturals, Sequences, SequencesExt

CONSTANTS Id,        \* accounts and room ids
          MaxStack   \* bound: items on the flash stack

ASSUME StackBound == MaxStack \in Nat

Kind == {"chat", "sys", "group", "call"}
Icon == {"online", "notify", "call", "blank"}
Item == [kind : Kind, id : Id]

VARIABLES
  flashStack,       \* m_stackFlash, the last item on top
  flashing,         \* m_bFlashing, and with it the flash timer
  icon,             \* m_nid.hIcon
  iconBeforeFlash,  \* m_hiconBeforeFlash
  toggle            \* the static bToogle of the timer callback

trayVars == <<flashStack, flashing, icon, iconBeforeFlash, toggle>>

TrayTypeOK ==
  /\ flashStack \in Seq(Item)
  /\ flashing \in BOOLEAN
  /\ icon \in Icon
  /\ iconBeforeFlash \in Icon
  /\ toggle \in BOOLEAN

TrayInit ==
  /\ flashStack = <<>>
  /\ flashing = FALSE
  /\ icon = "online"
  /\ iconBeforeFlash = "online"   \* NULL in the code, never read before it is set
  /\ toggle = TRUE

\* Mutant: the kind of an item is taken for its icon.
IconOfKind(kind) == kind

\* The icon each of the four SFlashData constructors is given.
IconOf(kind) == CASE kind = "sys" -> "notify"
                  [] kind = "call" -> "call"
                  [] OTHER -> "online"

Top == flashStack[Len(flashStack)]

-----------------------------------------------------------------------------
(* CTrayMgr *)

\* Mutant: Flash records the icon of every item, not only of the first.
PushRecordsAlways(item) ==
  /\ flashStack' = Append(flashStack, item)
  /\ flashing' = TRUE
  /\ iconBeforeFlash' = icon
  /\ UNCHANGED <<icon, toggle>>

\* CTrayMgr::Flash: the first item starts the timer and records the icon.
Push(item) ==
  /\ flashStack' = Append(flashStack, item)
  /\ flashing' = TRUE
  /\ iconBeforeFlash' = IF flashing THEN iconBeforeFlash ELSE icon
  /\ UNCHANGED <<icon, toggle>>

\* CTrayMgr::OnFlashTimer: show the icon of the top item, then nothing.
OnFlashTimer ==
  /\ flashing
  /\ icon' = IF toggle THEN IconOf(Top.kind) ELSE "blank"
  /\ toggle' = ~toggle
  /\ UNCHANGED <<flashStack, flashing, iconBeforeFlash>>

\* Mutant: the timer is left running when the last item goes.
StopAtKeepsTimer(i) ==
  /\ flashStack' = RemoveAt(flashStack, i)
  /\ UNCHANGED <<flashing, icon, iconBeforeFlash, toggle>>

\* CTrayMgr::StopFlash(nIndex): the last item to go stops the timer and puts
\* the recorded icon back.
StopAt(i) ==
  /\ flashStack' = RemoveAt(flashStack, i)
  /\ flashing' = (Len(flashStack) > 1)
  /\ icon' = IF Len(flashStack) > 1 THEN icon ELSE iconBeforeFlash
  /\ UNCHANGED <<iconBeforeFlash, toggle>>

-----------------------------------------------------------------------------
(* CTrayTaskModuleImpl *)

IndicesOf(id) == {i \in DOMAIN flashStack : flashStack[i].id = id}

\* IsSingleChatFlashing, IsSysMsgFlashing, IsGroupMsgFlashing,
\* IsCallIncomeMsgFlashing
IsFlashing(id) == IndicesOf(id) # {}

\* The index these functions hand back: that of the account's oldest item.
OldestOf(id) == {i \in IndicesOf(id) : \A j \in IndicesOf(id) : i <= j}

\* Flash and FlashGroup: a message flashes only if its account is not flashing
\* yet, an incoming call always does.
Flash(kind, id) ==
  \/ /\ kind = "call" \/ ~IsFlashing(id)
     /\ Push([kind |-> kind, id |-> id])
  \/ /\ kind # "call" /\ IsFlashing(id)
     /\ UNCHANGED trayVars

\* Mutant: CTrayMgr::StopFlash is called without the index, so the newest item
\* goes, whoever it is about.
StopNewest(id) ==
  \/ IsFlashing(id) /\ StopAt(Len(flashStack))
  \/ ~IsFlashing(id) /\ UNCHANGED trayVars

\* StopSinglechatFlash, StopLatestSysMsgFlash, StopGroupFlash,
\* StopIncomeCallMsgFlash: drop the oldest item of the account, if any.
StopFlash(id) ==
  \/ \E i \in OldestOf(id) : StopAt(i)
  \/ ~IsFlashing(id) /\ UNCHANGED trayVars

\* A double click on the flashing icon ends in StopFlash of the top item's
\* account: OnTrayEvent, eTrayEvent_TrayFlashStopped.
StopTop == flashing /\ StopFlash(Top.id)

-----------------------------------------------------------------------------
(* The tray on its own: any client, in any order. *)

DoFlash == /\ Len(flashStack) < MaxStack
           /\ \E kind \in Kind, id \in Id : Flash(kind, id)

DoStop == \E id \in Id : StopFlash(id)

TrayNext == DoFlash \/ DoStop \/ StopTop \/ OnFlashTimer

TraySpec == TrayInit /\ [][TrayNext]_trayVars

-----------------------------------------------------------------------------
(* Properties *)

\* The icon flashes exactly while there is something to look at: the timer
\* reads m_stackFlash.back() whenever m_bFlashing is set (TrayMgr.cpp:297), so
\* a set flag over an empty stack would read past the end.
FlashesWhileStacked == flashing <=> (flashStack # <<>>)

\* However the items come and go and wherever the timer is in its toggle, the
\* icon shown when nothing flashes is the logo, never a blank or the icon of
\* an item that is gone (TrayMgr.cpp:283, 321).
IconIsRestored == ~flashing => icon = "online"
=============================================================================

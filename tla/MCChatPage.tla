----------------------------- MODULE MCChatPage -----------------------------
EXTENDS ChatPage, TLC

Mix(open, message, data, form, event, fail) ==
  [open |-> open, message |-> message, data |-> data, form |-> form,
   event |-> event, fail |-> fail]

MCBudgets == {Mix(2, 0, 0, 0, 1, 0),   \* one session, then another
              Mix(1, 1, 0, 1, 1, 1),   \* several senders for one socket
              Mix(1, 0, 0, 0, 2, 1),   \* two events, and the websocket lost
              Mix(0, 0, 0, 3, 2, 1),   \* two forms
              Mix(1, 0, 2, 0, 0, 1)}   \* workspaces, variables and files
MCSymmetry == Permutations(FormIds) \cup Permutations(Sessions)
=============================================================================

---------------------------- MODULE BrowserTabs ----------------------------
(***************************************************************************)
(* What the parts of the extension's service worker that follow the        *)
(* browser's tabs have in common: MonitorSession and TabGroups.            *)
(***************************************************************************)
CONSTANTS
  Tabs,         \* tab ids, each given to one tab
  None          \* stands for null and undefined
=============================================================================

---------------------------- MODULE PortalAdapter ----------------------------
(***************************************************************************)
(* One adapter instance (portals/greenhouse/adapter.py; that of lever is   *)
(* the same).  Nothing in the application calls these methods yet, so the  *)
(* caller is one who calls them in any order: the sequence portals/base    *)
(* documents, an earlier close, no close at all, a fill after a prepare    *)
(* that failed.  validate, submit and verify change nothing: submit only   *)
(* answers dry_run_ready or raises.                                        *)
(***************************************************************************)
EXTENDS FormFilling

CONSTANTS
  Browser,     \* browser processes
  NoBrowser

ASSUME BrowserAssumption == NoBrowser \notin Browser

VARIABLES
  adapter,    \* the attributes of the instance
  browsers,   \* the browser processes that run
  caller,     \* history: the last call of prepare or close: "prepared",
              \* "failed", or "between" two applications
  replaced    \* history: the browsers a later prepare took from the stack

NoPage == [open |-> FALSE, browser |-> NoBrowser, form |-> <<>>, content |-> <<>>]

(* The exit stack is None (open = FALSE) or an object that will close what *)
(* it has entered.                                                         *)
NoStack == [open |-> FALSE, browser |-> NoBrowser]

Fresh == [stack |-> NoStack, page |-> NoPage, fields |-> <<>>, mappings |-> <<>>]

Blanked(page) == [j \in DOMAIN page |-> Blank]

Opened(b, form) == [open |-> TRUE, browser |-> b, form |-> form, content |-> Blanked(form)]

(* A new exit stack takes the place of the one that is there: the browser  *)
(* of that one is no longer anybody's to close.                            *)
Replace == replaced' = replaced \cup (browsers \cap {adapter.stack.browser})

(* launch_browser enters, or raises with nothing left running.             *)
Launch(b) == b \notin browsers \cup {adapter.page.browser} /\ browsers' = browsers \cup {b}

(* prepare_application, when launch_browser raises ...                     *)
LaunchFails ==
  /\ Replace
  /\ adapter' = [adapter EXCEPT !.stack = [open |-> TRUE, browser |-> NoBrowser]]
  /\ caller' = "failed"
  /\ UNCHANGED <<site, browsers>>

(* ... when new_page, goto or detect_fields raises: the fields and         *)
(* mappings of an earlier application stay ...                             *)
PrepareFails ==
  /\ Replace
  /\ \E b \in Browser :
       /\ Launch(b)
       /\ \E page \in {adapter.page, Opened(b, <<>>), Opened(b, site)} :
            adapter' = [adapter EXCEPT !.stack = [open |-> TRUE, browser |-> b], !.page = page]
  /\ caller' = "failed"
  /\ UNCHANGED site

(* Mutant of Prepare: mappings that are there already are kept.            *)
PrepareOnce ==
  /\ Replace
  /\ \E b \in Browser :
       /\ Launch(b)
       /\ adapter' = [stack    |-> [open |-> TRUE, browser |-> b],
                      page     |-> Opened(b, site),
                      fields   |-> FieldsOf[site],
                      mappings |-> IF Len(adapter.mappings) = Len(FieldsOf[site])
                                   THEN adapter.mappings
                                   ELSE MappingsOf[site]]
  /\ caller' = "prepared"
  /\ UNCHANGED site

(* ... and when nothing does.                                              *)
Prepare ==
  /\ Replace
  /\ \E b \in Browser :
       /\ Launch(b)
       /\ adapter' = [stack    |-> [open |-> TRUE, browser |-> b],
                      page     |-> Opened(b, site),
                      fields   |-> FieldsOf[site],
                      mappings |-> MappingsOf[site]]
  /\ caller' = "prepared"
  /\ UNCHANGED site

(* fill_application, with whatever page, fields and mappings the instance  *)
(* has.  On a page whose browser is gone every field is an error.          *)
Fill ==
  /\ adapter.page.open
  /\ adapter' = IF adapter.page.browser \in browsers
                THEN [adapter EXCEPT !.page.content =
                        FillForm(adapter.page.form, adapter.fields, adapter.mappings)]
                ELSE adapter
  /\ UNCHANGED <<site, browsers, caller, replaced>>

(* Mutant of Close: it looks at the page instead of the stack.             *)
CloseByPage ==
  /\ IF adapter.page.open
     THEN /\ browsers' = browsers \ {adapter.stack.browser}
          /\ adapter' = [adapter EXCEPT !.stack = NoStack, !.page = NoPage]
     ELSE UNCHANGED <<adapter, browsers>>
  /\ caller' = "between"
  /\ UNCHANGED <<site, replaced>>

(* close: fields and mappings stay behind.                                 *)
Close ==
  /\ IF adapter.stack.open
     THEN /\ browsers' = browsers \ {adapter.stack.browser}
          /\ adapter' = [adapter EXCEPT !.stack = NoStack, !.page = NoPage]
     ELSE UNCHANGED <<adapter, browsers>>
  /\ caller' = "between"
  /\ UNCHANGED <<site, replaced>>

(* aclose raises: the stack has let go of the browser, which ends with its *)
(* driver (browser/manager.py:21-27), and both attributes stay.            *)
CloseFails ==
  /\ adapter.stack.browser \in browsers
  /\ browsers' = browsers \ {adapter.stack.browser}
  /\ adapter' = [adapter EXCEPT !.stack.browser = NoBrowser]
  /\ caller' = "between"
  /\ UNCHANGED <<site, replaced>>

AdapterInit == adapter = Fresh /\ browsers = {} /\ caller = "between" /\ replaced = {}

AdapterNext ==
  \/ LaunchFails
  \/ PrepareFails
  \/ Prepare
  \/ Fill
  \/ Close
  \/ CloseFails
=============================================================================

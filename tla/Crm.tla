-------------------------------- MODULE Crm --------------------------------
(***************************************************************************)
(* From a lead to a client, by either of two endpoints:                    *)
(* LeadsService.convertToClient (stubs/leads.service.ts) and               *)
(* ClientsService.createFromLead (clients/clients/clients.service.ts),     *)
(* beside ClientsService.create and update.  No statement shares a         *)
(* transaction with another.                                               *)
(*                                                                         *)
(* One organization.  A client's id is its place in the order of creation: *)
(* clients are never deleted.  One that is archived keeps its lead and its *)
(* address, and nothing here asks whether it is, so that the status of a   *)
(* client, all that remove and an edit without an address set, is left out.*)
(***************************************************************************)
EXTENDS Naturals, Sequences, FiniteSets

CONSTANTS Leads,         \* leads, by their id
          Emails,        \* addresses a client can have
          EmailOf,       \* by lead: its address
          CrmRequests,   \* requests in flight together
          MaxClients,    \* bound on the clients
          MaxCrmCrashes, \* bound on the requests that die half way
          NoLead, NoEmail

ASSUME CrmAssumption == EmailOf \in [Leads -> Emails] /\ NoLead \notin Leads
                        /\ MaxClients \in Nat /\ MaxCrmCrashes \in Nat

Stages == {"NEW", "WON"}   \* every other stage is as good as NEW here

VARIABLES
    lead,        \* by lead: its stage and convertedToClientId, 0 for none
    client,      \* by id: the lead it came from, its e-mail
    crm,         \* by request: what it does, to which lead or e-mail, and how far
    crmCrashes,
    \* history, read by no action
    unlinked,    \* leads whose conversion died before it was linked
    overlapped   \* by request: since it looked, another added or edited a client

crmVars == <<lead, client, crm, crmCrashes, unlinked, overlapped>>

----------------------------------------------------------------------------
Row(from, email) == [lead |-> from, email |-> email]
Doing(step, l, email, made) == [step |-> step, lead |-> l, email |-> email, made |-> made]
CrmIdle == Doing("idle", NoLead, NoEmail, 0)
At(r, steps) == crm[r].step \in steps
Answer(r) == crm' = [crm EXCEPT ![r] = CrmIdle]
Becomes(l, stage, c) == lead' = [lead EXCEPT ![l] = [stage |-> stage, client |-> c]]

CrmInit ==
    /\ lead = [l \in Leads |-> [stage |-> "NEW", client |-> 0]]
    /\ client = <<>>
    /\ crm = [r \in CrmRequests |-> CrmIdle]
    /\ crmCrashes = 0
    /\ unlinked = {}
    /\ overlapped = [r \in CrmRequests |-> FALSE]

\* convertToClient: the lead is WON before anything else happens, and whether it
\* was converted before is not looked at.
MarkWon(r, l) ==
    /\ At(r, {"idle"})
    /\ Becomes(l, "WON", lead[l].client)
    /\ crm' = [crm EXCEPT ![r] = Doing("create", l, NoEmail, 0)]
    /\ UNCHANGED <<client, crmCrashes, unlinked, overlapped>>

\* createFromLead: a lead that is linked is answered with its client.
IsConverted(l) == lead[l].client # 0

FindLead(r, l) ==
    /\ At(r, {"idle"}) /\ ~IsConverted(l)
    /\ crm' = [crm EXCEPT ![r] = Doing("createFrom", l, NoEmail, 0)]
    /\ UNCHANGED <<lead, client, crmCrashes, unlinked, overlapped>>

\* The INSERT.  A lead has one client (Client.leadId is unique); the address is
\* not compared with any.
NoUniqueLead(l) == TRUE                                                  \* mutant
LeadIsFree(l) == \A c \in DOMAIN client : client[c].lead # l

Overlaps == overlapped' = [q \in CrmRequests |-> At(q, {"checked", "editing"})]
Add(from, email) ==
    /\ client' = Append(client, Row(from, email))
    /\ Overlaps

Linking(r, step, made) ==
    crm' = [crm EXCEPT ![r] = Doing(step, crm[r].lead, NoEmail, made)]

CreateFromLead(r) ==
    LET l == crm[r].lead IN
    /\ At(r, {"create", "createFrom"}) /\ Len(client) < MaxClients
    /\ LeadIsFree(l)
    /\ Add(l, EmailOf[l])
    /\ \/ At(r, {"create"}) /\ Linking(r, "link", Len(client) + 1)
       \/ At(r, {"createFrom"}) /\ Linking(r, "linkFrom", Len(client) + 1)
    /\ UNCHANGED <<lead, crmCrashes, unlinked>>

CreateRefused(r) ==
    /\ At(r, {"create", "createFrom"})
    /\ ~LeadIsFree(crm[r].lead)
    /\ Answer(r)
    /\ UNCHANGED <<lead, client, crmCrashes, unlinked, overlapped>>

\* convertedToClientId; createFromLead makes the lead WON here.
Link(r) ==
    LET l == crm[r].lead IN
    /\ At(r, {"link", "linkFrom"})
    /\ Becomes(l, IF At(r, {"linkFrom"}) THEN "WON" ELSE lead[l].stage, crm[r].made)
    /\ Answer(r)
    /\ UNCHANGED <<client, crmCrashes, unlinked, overlapped>>

\* moveStage: any stage, of a converted lead too.
MoveStage(l, stage) ==
    /\ Becomes(l, stage, lead[l].client)
    /\ UNCHANGED <<client, crm, crmCrashes, unlinked, overlapped>>

----------------------------------------------------------------------------
\* ClientsService.create: looks for the address, then inserts.
EmailIsFree(email) == \A c \in DOMAIN client : client[c].email # email

LookUpEmail(r, email) ==
    /\ At(r, {"idle"}) /\ EmailIsFree(email)
    /\ crm' = [crm EXCEPT ![r] = Doing("checked", NoLead, email, 0)]
    /\ overlapped' = [overlapped EXCEPT ![r] = FALSE]
    /\ UNCHANGED <<lead, client, crmCrashes, unlinked>>

CreateClient(r) ==
    /\ At(r, {"checked"}) /\ Len(client) < MaxClients
    /\ Add(NoLead, crm[r].email)
    /\ Answer(r)
    /\ UNCHANGED <<lead, crmCrashes, unlinked>>

\* ClientsService.update: an address that is not the client's own is looked for,
\* then the row is written.
LookUpEdit(r, c, email) ==
    /\ At(r, {"idle"})
    /\ email # client[c].email => EmailIsFree(email)
    /\ crm' = [crm EXCEPT ![r] = Doing("editing", NoLead, email, c)]
    /\ overlapped' = [overlapped EXCEPT ![r] = FALSE]
    /\ UNCHANGED <<lead, client, crmCrashes, unlinked>>

EditClient(r) ==
    LET c == crm[r].made IN
    /\ At(r, {"editing"})
    /\ client' = [client EXCEPT ![c] = Row(client[c].lead, crm[r].email)]
    /\ Overlaps /\ Answer(r)
    /\ UNCHANGED <<lead, crmCrashes, unlinked>>

\* A request dies, or a statement of it fails.
CrmCrash(r) ==
    /\ ~At(r, {"idle"})
    /\ crmCrashes < MaxCrmCrashes /\ crmCrashes' = crmCrashes + 1
    /\ unlinked' = IF At(r, {"link", "linkFrom"}) THEN unlinked \cup {crm[r].lead}
                   ELSE unlinked
    /\ Answer(r)
    /\ UNCHANGED <<lead, client, overlapped>>

CrmNext ==
    \/ \E r \in CrmRequests :
          \/ \E l \in Leads : MarkWon(r, l) \/ FindLead(r, l)
          \/ \E e \in Emails : LookUpEmail(r, e)
          \/ CreateFromLead(r) \/ CreateRefused(r) \/ Link(r)
          \/ CreateClient(r) \/ EditClient(r) \/ CrmCrash(r)
          \/ \E c \in DOMAIN client, e \in Emails : LookUpEdit(r, c, e)
    \/ \E l \in Leads, s \in Stages : MoveStage(l, s)

----------------------------------------------------------------------------
\* The type invariant.
CrmTypeOK ==
    /\ lead \in [Leads -> [stage : Stages, client : 0..MaxClients]]
    /\ client \in Seq([lead : Leads \cup {NoLead}, email : Emails])
    /\ crm \in [CrmRequests ->
         [step : {"idle", "create", "createFrom", "link", "linkFrom", "checked",
                  "editing"},
          lead : Leads \cup {NoLead}, email : Emails \cup {NoEmail},
          made : 0..MaxClients]]
    /\ crmCrashes \in 0..MaxCrmCrashes
    /\ unlinked \subseteq Leads /\ overlapped \in [CrmRequests -> BOOLEAN]

\* A lead becomes one client at most, and the link of a lead leads to the client
\* that came from it, whichever endpoints race for it.
LinkIsMutual ==
    /\ \A c, d \in DOMAIN client :
          client[c].lead = client[d].lead /\ client[c].lead # NoLead => c = d
    /\ \A l \in Leads :
          lead[l].client # 0 => client[lead[l].client].lead = l

\* A client whose lead does not point back is being linked, or its conversion
\* died in between: that lead stays unlinked for good, for every retry is
\* refused by the unique key.
HalfConversionHasACause ==
    /\ \A c \in DOMAIN client :
          LET l == client[c].lead IN
          l # NoLead /\ lead[l].client = 0
            => l \in unlinked \/ \E r \in CrmRequests :
                  crm[r].lead = l /\ At(r, {"link", "linkFrom"})
    /\ \A l \in unlinked : lead[l].client = 0

\* Whoever creates a client, or edits the address of one, gives it an address that
\* a client has only if another request added or edited a client between its lookup
\* and its write: no key protects addresses.  A conversion looks for none, and may
\* double one at any time.
GivesAddress(r) ==
    \/ CreateClient(r)
    \/ EditClient(r) /\ client[crm[r].made].email # crm[r].email
DuplicateEmailHasACause ==
    [][\A r \in CrmRequests :
          GivesAddress(r) /\ ~overlapped[r]
            => \A c \in DOMAIN client : client[c].email # crm[r].email]_crmVars

\* Leads and clients tell the same story of a conversion, or the story of where it
\* stopped.
ConversionIsTraceable ==
    [](LinkIsMutual /\ HalfConversionHasACause) /\ DuplicateEmailHasACause
=============================================================================

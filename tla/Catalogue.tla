----------------------------- MODULE Catalogue -----------------------------
(***************************************************************************)
(* The services and discounts of master.service.ts.  Their rows are never  *)
(* removed (deleting one makes it inactive), so that an update finds the   *)
(* row it has looked for, and its look and its write are one step.  Ids    *)
(* are the places in the two sequences.                                    *)
(***************************************************************************)
EXTENDS Naturals, Sequences

CONSTANTS
  ServiceRows,    \* what createService may insert
  ServiceEdits,   \* what updateService may be given: some of a row's columns
  DiscountRows,   \* what createDiscount may insert
  DiscountEdits,  \* what updateDiscount may be given
  MaxEdits        \* bound: changes of the catalogue

\* A row of each table; a percent or price that is null is 0.
Service == [price : Nat \ {0}, isActive : BOOLEAN]
Discount ==
  [type : {"percent", "nominal"}, percent : Nat, price : Nat, isActive : BOOLEAN]

ASSUME RowsAssumption == ServiceRows \subseteq Service /\ DiscountRows \subseteq Discount
ASSUME ServiceEditsAssumption ==
  \A edit \in ServiceEdits :
    /\ DOMAIN edit \subseteq {"price", "isActive"}
    /\ "price" \in DOMAIN edit => edit.price \in Nat \ {0}
    /\ "isActive" \in DOMAIN edit => edit.isActive \in BOOLEAN
ASSUME DiscountEditsAssumption ==
  \A edit \in DiscountEdits :
    /\ DOMAIN edit \subseteq {"type", "percent", "price", "isActive"}
    /\ "type" \in DOMAIN edit => edit.type \in {"percent", "nominal"}
    /\ "percent" \in DOMAIN edit => edit.percent \in Nat
    /\ "price" \in DOMAIN edit => edit.price \in Nat
    /\ "isActive" \in DOMAIN edit => edit.isActive \in BOOLEAN
ASSUME MaxEditsAssumption == MaxEdits \in Nat

VARIABLES
  services,   \* the service table
  discounts,  \* the discount table
  edits       \* changes so far, to bound them

catalogueVars == <<services, discounts, edits>>

\* The catalogue as it is now.
current == [services |-> services, discounts |-> discounts]

CreateService(row) ==
  services' = Append(services, row) /\ UNCHANGED discounts

\* Columns the request leaves out (or gives as null) keep their values.
Edited(row, edit) ==
  [column \in DOMAIN row |->
     IF column \in DOMAIN edit THEN edit[column] ELSE row[column]]

\* deleteService is the edit [isActive |-> FALSE].
UpdateService(i, edit) ==
  services' = [services EXCEPT ![i] = Edited(@, edit)] /\ UNCHANGED discounts

CreateDiscount(row) ==
  discounts' = Append(discounts, row) /\ UNCHANGED services

\* A percent or price given as null or 0 is removed, one left out is kept.
UpdateDiscount(i, edit) ==
  discounts' = [discounts EXCEPT ![i] = Edited(@, edit)] /\ UNCHANGED services

EditCatalogue ==
  /\ edits < MaxEdits
  /\ edits' = edits + 1
  /\ \/ \E row \in ServiceRows : CreateService(row)
     \/ \E i \in 1 .. Len(services), edit \in ServiceEdits : UpdateService(i, edit)
     \/ \E row \in DiscountRows : CreateDiscount(row)
     \/ \E i \in 1 .. Len(discounts), edit \in DiscountEdits :
          UpdateDiscount(i, edit)
=============================================================================

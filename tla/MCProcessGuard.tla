---------------------------- MODULE MCProcessGuard ----------------------------
(* Small instances of ProcessGuard for TLC. *)
EXTENDS ProcessGuard

CONSTANTS pump, engineer, manager, operator, stranger

MC_Roles ==
  [c \in Client |->
     CASE c = engineer -> "MaintenanceEngineer"
       [] c = operator -> "Operator"
       [] OTHER -> "PlantManager"]

\* The stranger is a plant manager of another site.
MC_ClientSite == [c \in Client |-> IF c = stranger THEN "site-07" ELSE "site-12"]
MC_EquipmentSite == [e \in Equipment |-> "site-12"]

MC_OnePlan == {<<"work_order">>}
MC_NoneOrBoth == {<<>>, <<"product_reorder", "work_order">>}
MC_Plans == {<<>>, <<"work_order">>, <<"work_order", "product_reorder">>}
=============================================================================

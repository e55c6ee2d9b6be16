----------------------------- MODULE TenantTypes -----------------------------
(***************************************************************************)
(* The Tenant resource (api/v1alpha1/tenant_types.go).  Of its properties, *)
(* what the controller reads: the repository its package goes to           *)
(* (repositoryRef) and the package it installs (applications.packageRef).  *)
(* Of its lifecycle, the deletion policy, which the API documents and the  *)
(* controller does not read.                                               *)
(***************************************************************************)
EXTENDS Integers, FiniteSets

CONSTANTS
    Tenants,       \* names of Tenant resources in the watched namespace
    Repos,         \* Porch repositories
    Sources,       \* package references a Tenant can name
    NoProps,       \* a Tenant spec without properties
    PropsOptional, \* users may leave the properties out, as the CRD lets them
    Policies       \* deletion policies that users choose from

Specs == [repo : Repos, src : Sources]

\* spec.lifecycle.deletionPolicy: what happens to the package revisions when
\* the Tenant is deleted.  "delete" is the default.
DeletionPolicies == {"delete", "orphan"}

ASSUME TypesAssumption ==
    /\ NoProps \notin Specs
    /\ PropsOptional \in BOOLEAN
    /\ Policies \subseteq DeletionPolicies

SpecValues == Specs \cup {NoProps}

\* What users write into spec.properties.
UserSpecs == IF PropsOptional THEN SpecValues ELSE Specs

Statuses == {"None", "Ready", "Unknown", "Unavailable"}

\* fin: the controller's finalizer is set; del: the deletion timestamp is set.
Versions == [live : BOOLEAN, spec : SpecValues, policy : DeletionPolicies, del : BOOLEAN,
             fin : BOOLEAN, status : Statuses]

Gone == [live |-> FALSE, spec |-> NoProps, policy |-> "delete", del |-> FALSE, fin |-> FALSE,
         status |-> "None"]
=============================================================================

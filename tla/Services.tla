------------------------------ MODULE Services ------------------------------
(***************************************************************************)
(* The methods of the application services, as the steps they take         *)
(* (Steps.tla): whom they admit, what they refuse and in which order, what *)
(* they commit and what they audit.  Every repository call is a            *)
(* transaction of its own, and the audit row of an act is written after    *)
(* the act was committed: a method may fail between the two.               *)
(*                                                                         *)
(* What a transaction does inside is modelled in Accounts, AdminRoles,     *)
(* Listings, Photos, Reviews, Reports, Signals and Feeds.                  *)
(***************************************************************************)
EXTENDS Steps

----------------------------------------------------------------------------
\* ModerationService

ModeratorOnly == May("moderator", "NotAuthorized")
AdminOnly     == May("admin", "NotAuthorized")

submit_report ==
  << Meter, Meter,
     Check("reason", {"InvalidReason"}),
     Check("description", {"InvalidField"}),
     Check("target_exists", {"TargetNotFound"} \cup Database),
     Once("report.created", "AlreadyReported", {"AlreadyReported", "Unavailable", "Internal"}),
     Audit("report.created", "Internal") >>

list_reports    == << ModeratorOnly, Check("reports", Database) >>
queue_counts    == << ModeratorOnly, Check("counts", Database) >>
report_previews == << ModeratorOnly, Check("previews", Database) >>

claim_report ==
  << ModeratorOnly,
     Once("report.claimed", "InvalidState", {"NotFound", "InvalidState"} \cup Database),
     Audit("report.claimed", "Internal") >>

hide_resolved_target == << Ensure("target.hidden", Database) >>

Closed(outcome, after) ==
  << ModeratorOnly,
     Check("report", {"NotFound"} \cup Database),
     Check("reporter", {"SelfResolve"}),
     Once(outcome, "InvalidState", {"NotFound", "InvalidState"} \cup Database) >>
  \o after \o
  << Audit(outcome, "Internal") >>

resolve_report == Closed("report.resolved", hide_resolved_target)
dismiss_report == Closed("report.dismissed", <<>>)

Moderated(act) ==
  << ModeratorOnly,
     Once(act, "InvalidState", {"NotFound", "InvalidState"} \cup Database),
     Audit(act, "Internal") >>

hide_review        == Moderated("review.hidden")
restore_review     == Moderated("review.restored")
hide_photo         == Moderated("photo.hidden")
restore_photo      == Moderated("photo.restored")
invalidate_parking == Moderated("parking.invalidated")
restore_parking    == Moderated("parking.restored")

list_pending_proposals == << ModeratorOnly, Check("proposals", Database) >>

approve_proposal ==
  << ModeratorOnly,
     Check("proposal", {"NotFound"} \cup Database),
     Check("merge", {"InvalidProposalField"}),
     Once("proposal.approved", "InvalidState",
          {"NotFound", "InvalidState", "StaleProposal"} \cup Database),
     Audit("proposal.approved", "Internal") >>

reject_proposal ==
  << ModeratorOnly,
     Once("proposal.rejected", "InvalidState", {"NotFound", "InvalidState"} \cup Database),
     Audit("proposal.rejected", "Internal") >>

list_audit_events         == << AdminOnly, Check("audit", {"Internal"}) >>
user_contribution_history == << ModeratorOnly, Check("history", {"Internal"}) >>

----------------------------------------------------------------------------
\* ContributionService

VerifiedOnly == May("verified", "NotVerified")

require_active == Check("location", {"NotFound", "LocationNotActive"} \cup Database)

add_parking_location ==
  << VerifiedOnly, Meter, Meter,
     Check("name and address", {"InvalidField"}),
     Check("timezone", {"Timezone"}),
     Check("duplicates", Database),
     Write("parking.created", Database),
     Audit("parking.created", "Internal") >>

find_duplicates == << VerifiedOnly, Check("duplicates", Database) >>

\* what the transaction that files a proposal checks again
create_proposal ==
  {"NotFound", "LocationNotActive", "VersionConflict", "InvalidField", "NotVerified"}
    \cup Database

apply_parking_edit ==
  << VerifiedOnly, Meter,
     Check("name and address", {"InvalidField"}),
     require_active,
     Check("version", {"VersionConflict"}),
     Check("edit", {"InvalidField"}),
     Write("parking.proposal_created", create_proposal),
     Audit("parking.proposal_created", "Internal") >>

propose_location_change ==
  << VerifiedOnly, Meter,
     require_active,
     Check("payload", {"InvalidField"}),
     Check("timezone", {"Timezone", "InvalidField"}),
     Write("parking.proposal_created", create_proposal),
     Audit("parking.proposal_created", "Internal") >>

\* a vote is an upsert; one that publishes is audited as an approval first
Vote(published) ==
  << VerifiedOnly,
     Ensure("parking.proposal_voted",
            {"NotFound", "Unauthorized", "VersionConflict", "LocationNotActive",
             "NotVerified"} \cup Database) >>
  \o published \o
  << Audit("parking.proposal_voted", "Internal") >>

vote_on_proposal   == Vote(<<>>)
vote_that_publishes == Vote(<< Audit("proposal.approved", "Internal") >>)

upsert_review ==
  << VerifiedOnly, Meter, require_active,
     Ensure("review.saved", {"NotFound", "LocationNotActive"} \cup Database),
     Audit("review.saved", "Internal") >>

\* a confirmation moves the listing's freshness after it was recorded
Signal(freshness) ==
  << VerifiedOnly, Meter, require_active,
     Write("verification.recorded", {"NotFound", "LocationNotActive"} \cup Database) >>
  \o freshness \o
  << Audit("verification.recorded", "Internal") >>

record_verification == Signal(<<>>)
record_confirmation == Signal(<< Ensure("location.verified_at", Database) >>)

toggle_favorite      == << Write("favorite.toggled", {"NotFound"} \cup Database) >>
list_favorites       == << Check("favorites", Database) >>
contribution_history == << Check("history", Database) >>

\* the details of a listing are nine reads, any of which fails the whole
community_details_page == << Check("details", Database) >>

----------------------------------------------------------------------------
\* PhotoService.  The two objects are put before the row; what an upload
\* leaves behind when it fails is in Photos.tla.

upload_photo_service ==
  << VerifiedOnly, Meter, Meter,
     Check("size", {"TooLarge"}),
     Check("alt", {"InvalidField"}),
     Check("image", {"UnsupportedFormat", "Undecodable", "TooManyPixels", "Internal"}),
     Check("objects", {"Storage"}),
     Write("photo.uploaded", {"NotFound"} \cup Database),
     Audit("photo.uploaded", "Internal") >>

\* a photo that is approved already is a success and is not audited again
approve_photo ==
  << May("moderator", "Unauthorized"),
     Check("photo", {"NotFound"} \cup Database),
     Already("photo.approved"),
     Once("photo.approved", "NotPending", {"NotPending"} \cup Database),
     Audit("photo.approved", "Internal") >>

reject_photo ==
  << May("moderator", "Unauthorized"),
     Check("reason", {"InvalidField"}),
     Check("photo", {"NotFound"} \cup Database),
     Already("photo.rejected"),
     Once("photo.rejected", "NotPending", {"NotPending"} \cup Database),
     Attempt("objects.deleted"),
     Audit("photo.rejected", "Internal") >>

list_pending_photos == << May("moderator", "Unauthorized"), Check("photos", Database) >>

----------------------------------------------------------------------------
\* PrivacyService

request_export ==
  << Meter, Meter,
     Check("payload", Database),
     Write("privacy.export_requested", Database),
     Audit("privacy.export_requested", "Internal") >>

list_exports == << Check("exports", Database) >>

\* the token is spent by the download's own transaction; an audit that fails
\* after it loses the file
download_export ==
  << Check("export", {"NotFound"} \cup Database),
     Check("owner", {"NotAuthorized"}),
     Check("token", {"InvalidToken"}),
     Once("privacy.export_downloaded", "AlreadyDownloaded",
          {"NotFound", "InvalidToken", "Expired"} \cup Database),
     Audit("privacy.export_downloaded", "Internal") >>

\* six transactions in a row: the request is on file before the account is
\* erased, and closed after
request_deletion ==
  << Meter, Meter,
     Check("confirm_email", {"ReauthRequired"}),
     Check("identity", {"Internal", "ReauthRequired"}),
     Check("password", {"ReauthRequired", "Internal"}),
     Check("is_last_admin", {"LastAdmin"} \cup Database),
     Write("deletion.request", Database),
     Audit("deletion.request", "Internal"),
     Ensure("account.anonymized", {"LastAdmin"} \cup Database),
     Ensure("request.fulfilled", {"NotFound"} \cup Database),
     Audit("account.anonymized", "Internal"),
     Ensure("sessions.revoked", {"Internal"}) >>

submit_request ==
  << Check("kind", {"InvalidKind"}),
     Write("privacy.request_created", Database),
     Audit("privacy.request_created", "Internal") >>

list_requests == << AdminOnly, Check("requests", Database) >>

fulfill_request ==
  << AdminOnly,
     Once("privacy.request_fulfilled", "NotFound", {"NotFound"} \cup Database),
     Audit("privacy.request_fulfilled", "Internal") >>

----------------------------------------------------------------------------
\* AuthService.  The outbox writes an account, its token, its mail job and its
\* audit row in one transaction, so these acts need no Audit step; the mail is
\* handed over afterwards when it is sent inline.  Every registration of a
\* pending address, every resend, reset and change of address issues a link and
\* a mail of its own, also when the same was asked for a moment ago.

Dispatch == Check("dispatch", {"Internal"})

register_accepting_terms ==
  << Meter,
     Check("email", {"InvalidEmail"}),
     Check("password", {"WeakPassword"}),
     Check("hash", {"Internal", "Unavailable"}),
     Write("auth.registered", Database),
     Dispatch >>

verification_target ==
  Check("token", {"TokenInvalid", "Unavailable", "Internal"})

verification_purpose == << verification_target >>

prove_activation_password ==
  << Meter, Meter,
     Check("password", {"InvalidCredentials", "Unavailable", "Internal"}) >>

verify_email_service ==
  << verification_target >> \o prove_activation_password \o
  << Once("auth.email_verified", "TokenInvalid",
          {"EmailTaken", "TokenInvalid", "Unavailable", "Internal"}),
     Attempt("notice") >>

resend_verification ==
  << Check("account", Database), Neutral, Meter, Meter,
     Write("auth.verification_issued", Database),
     Dispatch >>

\* every refused credential leaves a row in the audit log before the refusal
login ==
  << Check("email", {"InvalidCredentials"}), Meter, Meter,
     Check("identity", Database),
     Refuse("auth.login_failed", "InvalidCredentials"),
     Check("account", Database),
     Refuse("auth.login_failed", "InvalidCredentials"),
     Write("session.created", Database),
     Audit("session.created", "Internal") >>

logout_service == << Own("session.revoked") >>

request_password_reset ==
  << Meter, Meter,
     Check("account", Database), Neutral,
     Write("auth.reset_issued", Database),
     Dispatch >>

reset_password ==
  << Check("token", {"TokenInvalid"}),
     Check("password", {"WeakPassword"}),
     Check("reset", {"TokenInvalid", "Unavailable", "Internal"}),
     Check("hash", {"Internal", "Unavailable"}),
     Once("auth.password_reset", "TokenInvalid", {"TokenInvalid"} \cup Database),
     Attempt("notice") >>

admit_reauth == << Meter, Meter >>

change_password ==
  admit_reauth \o
  << Check("identity", {"InvalidCredentials", "Unavailable", "Internal"}),
     Check("current", {"InvalidCurrentPassword", "Internal", "Unavailable"}),
     Check("password", {"WeakPassword"}),
     Check("hash", {"Internal", "Unavailable"}),
     Once("auth.password_changed", "InvalidCurrentPassword",
          {"InvalidCurrentPassword"} \cup Database),
     Attempt("notice") >>

change_email ==
  admit_reauth \o
  << Check("identity", {"InvalidCredentials", "Unavailable", "Internal"}),
     Check("current", {"InvalidCurrentPassword", "Internal", "Unavailable"}),
     Check("new address", {"EmailTaken", "Unavailable", "Internal"}),
     Write("auth.email_change_requested", {"InvalidCredentials"} \cup Database),
     Dispatch >>

set_locale == << Own("account.locale") >>

set_public_contribution_name == << Ensure("account.public_name", Database) >>

sign_in ==
  << Check("account state", {"InvalidCredentials"}),
     Write("session.created", Database),
     Audit("session.created", "Internal") >>

\* the provider's identity is known, its verified address is an account's, or
\* an account is created for it
OauthIdentity ==
  << Check("exchange", {"ProviderFailed"}),
     Check("identity", {"ProviderFailed"} \cup Database) >>

oauth_known == OauthIdentity \o sign_in

oauth_linked ==
  OauthIdentity \o << Ensure("identity.linked", Database) >> \o sign_in

oauth_created ==
  OauthIdentity \o
  << Ensure("account.created", Database),
     Ensure("identity.linked", Database),
     Ensure("email.verified", Database),
     Check("account", {"ProviderFailed"} \cup Database),
     Audit("account.created", "Internal") >>
  \o sign_in

AdminActor == May("admin", "Unauthorized")

grant_role ==
  << AdminActor,
     Check("role", {"Unauthorized"}),
     Ensure("role.granted", Database),
     Audit("role.granted", "Internal") >>

\* a role that is gone already is a success and is not audited again
revoke_role ==
  << AdminActor,
     Check("role", {"Unauthorized"}),
     Already("role.revoked"),
     Ensure("role.revoked", {"RefuseAdminSelfRevoke"} \cup Database),
     Audit("role.revoked", "Internal") >>

suspend_user ==
  << AdminActor,
     Check("self", {"SelfSuspension"}),
     Once("user.suspended", "StateUnchanged",
          {"StateUnchanged", "LastActiveAdmin"} \cup Database) >>

restore_user ==
  << AdminActor,
     Once("user.restored", "StateUnchanged", {"StateUnchanged"} \cup Database) >>

search_users  == << Check("users", Database) >>
user_labels   == << Check("labels", Database) >>
user_activity == << Check("activity", Database) >>
=============================================================================

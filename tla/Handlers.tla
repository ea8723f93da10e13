------------------------------ MODULE Handlers ------------------------------
(***************************************************************************)
(* The handlers behind the routes of the web server (Steps.tla says how    *)
(* one is written down): who may enter, what is parsed, which service is   *)
(* called (Services.tla) and what every outcome is answered with.          *)
(*                                                                         *)
(* A handler whose path through a service depends on the data is entered   *)
(* once per path: a vote that publishes and one that does not, the three   *)
(* ways through the callback of the identity provider.                     *)
(***************************************************************************)
EXTENDS Services, TLC

----------------------------------------------------------------------------
\* Moderation and reports (routes/moderation.rs)

moderation_error_message ==
  [NotAuthorized |-> 403, SelfResolve |-> 409, NotFound |-> 404,
   TargetNotFound |-> 404, InvalidState |-> 409, AlreadyReported |-> 409,
   StaleProposal |-> 409, InvalidReason |-> 400, InvalidField |-> 400,
   InvalidProposalField |-> 400, RateLimited |-> 429, Conflict |-> 409,
   Unavailable |-> 503, Internal |-> 500]

report_result(steps)     == Changes(steps, Toast(200), Toasts(moderation_error_message))
moderation_result(steps) == report_result(<< Extract, Gate("moderator") >> \o steps)

report_submit ==
  report_result(<< Extract, Gate("user"),
                   Check("target", {"InvalidField"}),
                   Check("kind", {"InvalidReason"}) >> \o submit_report)

moderation_dashboard ==
  Reads(<< Gate("moderator") >> \o Lenient(queue_counts), Document, NoErrors)

moderation_reports ==
  Reads(<< Extract, Gate("moderator") >> \o Lenient(list_reports)
          \o Lenient(report_previews) \o << Try("thumbnails") >>, Document, NoErrors)

moderation_report_claim   == moderation_result(claim_report)
moderation_report_resolve == moderation_result(resolve_report)
moderation_report_dismiss == moderation_result(dismiss_report)

moderation_proposals ==
  Reads(<< Extract, Gate("moderator") >> \o Lenient(list_pending_proposals),
        Document, NoErrors)

\* the overrides of the approving moderator, parsed before the service is asked
to_override == Check("override", {"InvalidProposalField"})

moderation_proposal_approve == moderation_result(<< to_override >> \o approve_proposal)
moderation_proposal_reject  == moderation_result(reject_proposal)
moderation_review_hide        == moderation_result(hide_review)
moderation_review_restore     == moderation_result(restore_review)
moderation_parking_invalidate == moderation_result(invalidate_parking)
moderation_parking_restore    == moderation_result(restore_parking)

----------------------------------------------------------------------------
\* Photos (routes/photo.rs)

photo_error ==
  [NotVerified |-> 403, Unauthorized |-> 403, RateLimited |-> 429, TooLarge |-> 400,
   UnsupportedFormat |-> 400, Undecodable |-> 400, TooManyPixels |-> 400,
   InvalidField |-> 400, NotFound |-> 404, NotPending |-> 409, Conflict |-> 409,
   Storage |-> 500, Internal |-> 500, Unavailable |-> 503]

photo_upload_result(steps) == Changes(steps, Toast(200), Toasts(photo_error))

upload_photo ==
  photo_upload_result(<< Extract, Gate("verified"), Check("multipart", {"InvalidField"}) >>
                        \o upload_photo_service)

parse_photo_kind == Check("kind", {"InvalidField"})

moderation_photo_approve ==
  photo_upload_result(<< Extract, Gate("moderator"), parse_photo_kind >> \o approve_photo)
moderation_photo_reject ==
  photo_upload_result(<< Extract, Gate("moderator"), parse_photo_kind >> \o reject_photo)
moderation_photo_hide    == moderation_result(<< parse_photo_kind >> \o hide_photo)
moderation_photo_restore == moderation_result(<< parse_photo_kind >> \o restore_photo)

moderation_photos ==
  Reads(<< Extract, Gate("moderator") >> \o Lenient(list_pending_photos)
          \o << Try("urls") >>, Document, NoErrors)

----------------------------------------------------------------------------
\* Contributions (routes/community.rs, routes/reviews.rs)

ContributionErrors ==
  {"NotVerified", "RateLimited", "VersionConflict", "NotFound", "LocationNotActive",
   "InvalidField", "Unauthorized", "Timezone", "Conflict", "Unavailable", "Internal"}

contribution_error_status(default) ==
  [e \in ContributionErrors |->
     CASE e = "Conflict"          -> 409
       [] e = "Unavailable"       -> 503
       [] e = "LocationNotActive" -> 404
       [] OTHER                   -> default]

verification_result(steps) ==
  Changes(<< Extract, Gate("verified") >> \o steps,
          Toast(200), Toasts(contribution_error_status(400)))

parking_new_page == Reads(<< Gate("verified") >>, Document, NoErrors)

\* the possible duplicates are looked for before anything is written; a lookup
\* that fails does not stop the contribution
parking_new_post ==
  Changes(<< Extract, Gate("verified"),
             Check("form", {"InvalidField"}),
             Check("duplicates", {"Confirm", "NotVerified"}) >> \o add_parking_location,
          Goto,
          ("Confirm" :> {Form(200)} @@ "NotVerified" :> {GotoError} @@ "RateLimited" :> {Form(429)})
            @@ Forms(contribution_error_status(400)))

\* a listing that is gone, hidden or cannot be read has no form to edit it
EditableListing == Check("details", {"NotFound"})

parking_edit_page ==
  Reads(<< Extract, Gate("verified"), EditableListing >>, Document,
        "NotFound" :> {Error(404)})

\* a submission against an old version is answered with the form of the new
\* one; the listing may be gone by then
parking_edit_post ==
  Changes(<< Extract, Gate("verified"),
             Check("details", {"LocationNotActive"}),
             Check("form", {"InvalidField"}) >> \o apply_parking_edit,
          Goto,
          ("LocationNotActive" :> {Error(404)} @@ "VersionConflict" :> {Form(200), Error(404)})
            @@ Forms(contribution_error_status(200)))

parking_proposal_post ==
  Changes(<< Extract, Gate("verified"),
             Check("details", {"LocationNotActive"}),
             Check("kind", {"InvalidField"}),
             Check("coordinates or existence", {"InvalidField"}) >> \o propose_location_change,
          Goto,
          ("LocationNotActive" :> {Error(404)} @@ "RateLimited" :> {Form(429)})
            @@ Forms(contribution_error_status(400)))

proposal_vote(steps) ==
  Changes(<< Extract, Gate("verified"), Check("vote", {"InvalidField"}) >> \o steps,
          Goto, All(ContributionErrors, GotoError))

parking_proposal_vote_post    == proposal_vote(vote_on_proposal)
parking_proposal_vote_publish == proposal_vote(vote_that_publishes \o << Try("details") >>)

review_page ==
  Reads(<< Extract, Gate("verified"), Try("details") >> \o Lenient(community_details_page),
        Document, NoErrors)

\* the photos are uploaded after the review is saved; none of their failures
\* is reported
review_post ==
  Changes(<< Extract, Gate("verified"),
             Check("multipart", {"InvalidField"}),
             Check("rating", {"InvalidField"}),
             Check("body", {"InvalidField"}) >>
            \o upsert_review
            \o << Try("details"), Try("own review"), Attempt("photo.uploaded") >>,
          Goto, Forms(contribution_error_status(200)))

VerifyKind == Check("kind, result and attribute", {"InvalidField"})

parking_verify_post         == verification_result(<< VerifyKind >> \o record_verification)
parking_verify_confirmation == verification_result(<< VerifyKind >> \o record_confirmation)
parking_parked_here_post    == verification_result(record_verification)

parking_favorite_post ==
  Changes(<< Extract, Gate("user") >> \o toggle_favorite, Either,
          Toasts(contribution_error_status(500)))

account_favorites ==
  Reads(<< Extract, Gate("user") >> \o Lenient(list_favorites) \o << Try("urls") >>,
        Document, NoErrors)
account_contributions ==
  Reads(<< Extract, Gate("user") >> \o Lenient(contribution_history), Document, NoErrors)

----------------------------------------------------------------------------
\* Details, search and the public pages (routes/details.rs, search.rs, api.rs,
\* public.rs, csp_report.rs)

DetailTabs == {"current", "approvals", "history"}

\* the reads a tab needs, in the order they are made
detail_read_plan(tab) ==
  (IF tab = "current" THEN << Try("gallery"), Try("community") >> ELSE <<>>)
    \o << Try("summary"), Try("pending photos") >>
    \o (IF tab = "approvals" THEN << Try("proposals") >> ELSE <<>>)
    \o (IF tab = "history" THEN << Try("history") >> ELSE <<>>)

parking_details(tab) ==
  Reads(<< Extract, Check("details", {"NotFound", "Internal"}),
           Hidden("moderator", "NotFound") >> \o detail_read_plan(tab),
        Document, "NotFound" :> {Error(404)} @@ "Internal" :> {Error(500)})

\* an exhausted budget and a destination that is missing or unknown are told on
\* the results page itself
search ==
  Reads(<< Check("query", {"InvalidField"}),
           Check("admit_search", {"OverBudget"}),
           Check("destination", {"MissingDestination", "Geocode"}),
           Check("search", {"Internal"}) >>,
        View(200),
        "InvalidField" :> {Error(400)} @@ "OverBudget" :> {View(429)} @@
        "MissingDestination" :> {Reply(200, "view", "refused")} @@
        "Geocode" :> {Reply(200, "view", "refused")} @@ "Internal" :> {Error(500)})

browse ==
  Reads(<< Check("query", {"InvalidField"}),
           Check("bounds", {"InvalidBounds"}),
           Check("search", {"Internal"}) >>,
        View(200),
        "InvalidField" :> {Error(400)} @@ "InvalidBounds" :> {View(400)} @@
        "Internal" :> {Error(500)})

address_suggestions_api ==
  Reads(<< Extract, Neutral,
           Check("query and session", {"InvalidField"}),
           Check("budget", {"OverBudget"}),
           Check("provider", {"Geocode"}) >>,
        Data(200),
        "InvalidField" :> {Data(400)} @@ "OverBudget" :> {Data(429)} @@ "Geocode" :> {Data(503)})

resolve_address_suggestion_api ==
  Reads(<< Extract, Check("id and session", {"InvalidField"}),
           Check("budget", {"OverBudget"}),
           Check("provider", {"Geocode", "NotFound"}) >>,
        Data(200),
        "InvalidField" :> {Data(400)} @@ "OverBudget" :> {Data(429)} @@
        "Geocode" :> {Data(503)} @@ "NotFound" :> {Data(404)})

geocode_api ==
  Reads(<< Extract, Gate("verified"),
           Check("query", {"NotFound"}),
           Check("budget", {"OverBudget"}),
           Check("provider", {"Geocode", "NotFound"}) >>,
        Data(200),
        "OverBudget" :> {Data(429)} @@ "Geocode" :> {Data(503)} @@ "NotFound" :> {Data(404)})

healthz     == Reads(<<>>, Data(200), NoErrors)
readyz      == Reads(<< Check("database", {"Unavailable", "Internal"}) >>, Data(200),
                     "Unavailable" :> {Data(503)} @@ "Internal" :> {Data(500)})
robots_txt  == Reads(<<>>, Data(200), NoErrors)
sitemap_xml == Reads(<< Try("urls") >>, Data(200), NoErrors)
home        == Reads(<< Try("featured") >>, Document, NoErrors)
about       == Reads(<<>>, Document, NoErrors)
not_found   == Reads(<<>>, Error(404), NoErrors)

\* the choice of a language is a link: a safe method that writes
set_lang == Reads(<< Extract, Neutral >> \o set_locale, Goto, NoErrors)

csp_report ==
  Changes(<< Check("media type", {"Unsupported"}),
             Meter,
             Check("reports", {"InvalidField"}) >>,
          Data(204),
          "Unsupported" :> {Data(415)} @@ "RateLimited" :> {Data(429)} @@
          "InvalidField" :> {Data(400)})

----------------------------------------------------------------------------
\* Administration (routes/admin.rs)

\* every outcome is a redirect to the list, with a notice or an error code
AdminAction(path, steps, errors) ==
  Changes(<< Extract, Gate("admin") >> \o path \o steps, Goto, All(errors, GotoError))

admin_user_suspend ==
  AdminAction(<<>>, suspend_user,
              {"Unauthorized", "SelfSuspension", "StateUnchanged", "LastActiveAdmin"}
                \cup Database)
admin_user_restore ==
  AdminAction(<<>>, restore_user, {"Unauthorized", "StateUnchanged"} \cup Database)

RoleErrors == {"InvalidField", "Unauthorized", "RefuseAdminSelfRevoke"} \cup Database

admin_role_grant  == AdminAction(<< Check("role", {"InvalidField"}) >>, grant_role, RoleErrors)
admin_role_revoke == AdminAction(<< Check("role", {"InvalidField"}) >>, revoke_role, RoleErrors)

admin_privacy_request_fulfill ==
  AdminAction(<<>>, fulfill_request, {"NotAuthorized", "NotFound"} \cup Database)

admin_user_contributions ==
  Reads(<< Extract, Gate("moderator") >> \o Lenient(user_labels)
          \o Lenient(user_contribution_history), Document, NoErrors)

admin_audit ==
  Reads(<< Extract, Gate("admin") >> \o Lenient(list_audit_events)
          \o Lenient(user_labels), Document, NoErrors)

admin_users ==
  Reads(<< Extract, Gate("admin") >> \o Lenient(search_users)
          \o Lenient(user_activity), Document, NoErrors)

admin_privacy_requests ==
  Reads(<< Gate("admin") >> \o Lenient(list_requests) \o Lenient(user_labels),
        Document, NoErrors)

job_health_error == "Forbidden" :> {Error(403)} @@ "Read" :> {Error(500)}

JobHealth == << May("admin", "Forbidden"), Check("jobs", {"Read"}) >>

admin_jobs        == Reads(<< Gate("admin") >> \o JobHealth, Document, job_health_error)
admin_jobs_status ==
  Reads(<< Gate("admin"), FragmentOnly >> \o JobHealth, Partial, job_health_error)

----------------------------------------------------------------------------
\* Privacy (routes/privacy.rs)

account_privacy ==
  Reads(<< Extract, Gate("user") >> \o Lenient(list_exports), Document, NoErrors)

account_export_post ==
  Changes(<< Gate("user") >> \o request_export, Goto,
          All({"RateLimited"} \cup Database, GotoError))

account_privacy_request_post ==
  Changes(<< Extract, Gate("user") >> \o submit_request, Goto,
          All({"InvalidKind"} \cup Database, GotoError))

account_export ==
  Reads(<< Extract, Gate("user") >> \o Lenient(list_exports), Document, NoErrors)

\* a download is a link; the token it spends is in the cookie or in the path
account_export_download ==
  Reads(<< Extract, Gate("user") >> \o download_export, Data(200),
        All({"NotFound", "NotAuthorized"}, Error(403)) @@
        All({"InvalidToken", "Expired", "AlreadyDownloaded"} \cup Database, GotoError))

account_delete == Reads(<< Gate("user") >>, Document, NoErrors)

account_delete_post ==
  Changes(<< Extract, Gate("user") >> \o request_deletion, Goto,
          ("RateLimited" :> {Form(429)} @@ "Conflict" :> {Form(409)} @@
           "Unavailable" :> {Form(503)})
            @@ All({"LastAdmin", "ReauthRequired", "NotFound", "Internal"}, Form(200)))

----------------------------------------------------------------------------
\* Policies and terms (routes/legal.rs)

\* the current document in the asked language, else in the fallback language
current_policy == << Try("policy"), Try("fallback policy") >>
policy_history == << Try("versions"), Try("fallback versions") >>

policy_page_impl     == Reads(current_policy, Document, NoErrors)
policy_versions_impl == Reads(policy_history, Document, NoErrors)

terms_version ==
  Reads(<< Extract, Check("policy", {"NotFound", "Unavailable"}) >>, Document,
        "NotFound" :> {Error(404)} @@ "Unavailable" :> {Error(503)})

pending_terms_notices == Check("notices", {"Conflict", "NotFound", "Unavailable"})

\* showing the notice is what is recorded: a safe method that writes
account_terms_notice ==
  Reads(<< Extract, Gate("user"),
           Check("enabled", {"NotFound"}),
           pending_terms_notices,
           Ensure("terms.presented", {"Unavailable"}) >>,
        Document,
        "NotFound" :> {Error(404)} @@ "Conflict" :> {Error(409)} @@
        "Unavailable" :> {Error(503)})

account_terms_acknowledge ==
  Changes(<< Extract, Gate("user"),
             Check("enabled", {"NotFound"}),
             Check("policy", {"Unavailable"}),
             Check("form", {"Conflict"}),
             Ensure("terms.acknowledged", {"Conflict", "Unavailable"}) >>,
          Goto,
          "NotFound" :> {Error(404)} @@ "Unavailable" :> {Error(503)} @@
          "Conflict" :> {Form(409), Error(409), Error(503)})

----------------------------------------------------------------------------
\* Registration, sign-in and the account (routes/auth.rs)

registration_terms == Check("terms", {"NoTerms"})

register_page ==
  Reads(<< Guest, registration_terms >>, Document, "NoTerms" :> {Error(503)})

\* the page of a refused registration shows the terms again, which may fail
register_post ==
  Changes(<< Extract, Guest,
             Check("terms", {"NoTerms"}),
             Check("proof", {"Stale", "Conflict"}) >> \o register_accepting_terms,
          Goto,
          ("NoTerms" :> {Error(503)} @@ "Stale" :> {Form(409)} @@
           "Conflict" :> {Form(200), Form(409), Error(409), Error(503)})
            @@ [e \in {"RateLimited", "InvalidEmail", "WeakPassword", "Unavailable", "Internal"} |->
                  {Form(200), Error(503)}])

login_page == Reads(<< Extract, Guest >>, Document, NoErrors)

\* one answer for every reason a sign-in is refused
login_post ==
  Changes(<< Extract, Guest >> \o login, Goto,
          All({"InvalidCredentials", "RateLimited"} \cup Database, Form(200)))

logout == Changes(logout_service, Goto, NoErrors)

\* the link in the mail only shows the form; it spends nothing
verify_email ==
  Reads(<< Extract, Check("token", {"TokenInvalid"}) >> \o verification_purpose, Document,
        All({"TokenInvalid", "Unavailable", "Internal"}, Form(200)))

verify_email_post ==
  Changes(<< Extract >> \o verify_email_service, Goto,
          ("InvalidCredentials" :> {Form(422)} @@ "RateLimited" :> {Form(429)})
            @@ All({"TokenInvalid", "EmailTaken", "Unavailable", "Internal"}, Form(200)))

\* an address nobody has, and one that is none, get the answer of a success
verify_resend ==
  Changes(<< Extract, Neutral >> \o resend_verification, Goto,
          All({"RateLimited"} \cup Database, Form(200)))

password_reset_page == Reads(<< Extract >>, Document, NoErrors)
password_reset_post ==
  Changes(<< Extract, Neutral >> \o request_password_reset, Goto,
          All({"RateLimited"} \cup Database, Form(200)))

password_reset_new == Reads(<< Extract >>, Document, NoErrors)
password_reset_new_post ==
  Changes(<< Extract >> \o reset_password, Goto,
          All({"TokenInvalid", "WeakPassword"} \cup Database, Form(200)))

auth_google              == Reads(<<>>, Goto, NoErrors)
auth_google_fake_consent == Reads(<< Extract >>, Goto, NoErrors)

\* the provider sends the browser back with a link: a safe method that writes
auth_google_callback(steps) ==
  Reads(<< Extract, Check("state", {"ProviderFailed"}) >> \o steps, Goto,
        All({"ProviderFailed", "InvalidCredentials"} \cup Database, GotoError))

account ==
  Reads(<< Extract, Gate("user"), Check("terms", {"Unavailable"}),
           Check("public name", {"Unavailable"}) >>,
        Document, "Unavailable" :> {Error(503)})

account_public_name_post ==
  Changes(<< Extract, Gate("user"), Check("enabled", {"InvalidField"}) >>
            \o set_public_contribution_name,
          Goto, "InvalidField" :> {Error(400)} @@ All(Database, Error(503)))

\* a throttled password is a 429, a wrong one the form again
reauth_status(errors) == "RateLimited" :> {Form(429)} @@ All(errors, Form(200))

account_password == Reads(<< Gate("user") >>, Document, NoErrors)
account_password_post ==
  Changes(<< Extract, Gate("user") >> \o change_password, Goto,
          reauth_status({"InvalidCredentials", "InvalidCurrentPassword", "WeakPassword"}
                          \cup Database))

account_email == Reads(<< Gate("user") >>, Document, NoErrors)
account_email_post ==
  Changes(<< Extract, Gate("user"), Check("address", {"InvalidEmail"}) >> \o change_email, Goto,
          reauth_status({"InvalidEmail", "InvalidCredentials", "InvalidCurrentPassword",
                         "EmailTaken"} \cup Database))

----------------------------------------------------------------------------
\* The router: every handler behind its own name.

OauthCallback ==
  "oauth_known" :> auth_google_callback(oauth_known) @@
  "oauth_linked" :> auth_google_callback(oauth_linked) @@
  "oauth_created" :> auth_google_callback(oauth_created)

Details == [tab \in DetailTabs |-> parking_details(tab)]

routes ==
  OauthCallback @@ Details @@
  [report_submit |-> report_submit, moderation_dashboard |-> moderation_dashboard,
   moderation_reports |-> moderation_reports,
   moderation_report_claim |-> moderation_report_claim,
   moderation_report_resolve |-> moderation_report_resolve,
   moderation_report_dismiss |-> moderation_report_dismiss,
   moderation_proposals |-> moderation_proposals,
   moderation_proposal_approve |-> moderation_proposal_approve,
   moderation_proposal_reject |-> moderation_proposal_reject,
   moderation_review_hide |-> moderation_review_hide,
   moderation_review_restore |-> moderation_review_restore,
   moderation_parking_invalidate |-> moderation_parking_invalidate,
   moderation_parking_restore |-> moderation_parking_restore,
   upload_photo |-> upload_photo,
   moderation_photo_approve |-> moderation_photo_approve,
   moderation_photo_reject |-> moderation_photo_reject,
   moderation_photo_hide |-> moderation_photo_hide,
   moderation_photo_restore |-> moderation_photo_restore,
   moderation_photos |-> moderation_photos, parking_new_page |-> parking_new_page,
   parking_new_post |-> parking_new_post, parking_edit_page |-> parking_edit_page,
   parking_edit_post |-> parking_edit_post,
   parking_proposal_post |-> parking_proposal_post,
   parking_proposal_vote_post |-> parking_proposal_vote_post,
   parking_proposal_vote_publish |-> parking_proposal_vote_publish,
   review_page |-> review_page, review_post |-> review_post,
   parking_verify_post |-> parking_verify_post,
   parking_verify_confirmation |-> parking_verify_confirmation,
   parking_parked_here_post |-> parking_parked_here_post,
   parking_favorite_post |-> parking_favorite_post,
   account_favorites |-> account_favorites,
   account_contributions |-> account_contributions, search |-> search,
   browse |-> browse, address_suggestions_api |-> address_suggestions_api,
   resolve_address_suggestion_api |-> resolve_address_suggestion_api,
   geocode_api |-> geocode_api, healthz |-> healthz, readyz |-> readyz,
   robots_txt |-> robots_txt, sitemap_xml |-> sitemap_xml, home |-> home,
   about |-> about, not_found |-> not_found, set_lang |-> set_lang,
   csp_report |-> csp_report, admin_user_suspend |-> admin_user_suspend,
   admin_user_restore |-> admin_user_restore, admin_role_grant |-> admin_role_grant,
   admin_role_revoke |-> admin_role_revoke,
   admin_privacy_request_fulfill |-> admin_privacy_request_fulfill,
   admin_user_contributions |-> admin_user_contributions,
   admin_audit |-> admin_audit, admin_users |-> admin_users,
   admin_privacy_requests |-> admin_privacy_requests, admin_jobs |-> admin_jobs,
   admin_jobs_status |-> admin_jobs_status, account_privacy |-> account_privacy,
   account_export_post |-> account_export_post,
   account_privacy_request_post |-> account_privacy_request_post,
   account_export |-> account_export,
   account_export_download |-> account_export_download,
   account_delete |-> account_delete, account_delete_post |-> account_delete_post,
   policy_page_impl |-> policy_page_impl,
   policy_versions_impl |-> policy_versions_impl, terms_version |-> terms_version,
   account_terms_notice |-> account_terms_notice,
   account_terms_acknowledge |-> account_terms_acknowledge,
   register_page |-> register_page, register_post |-> register_post,
   login_page |-> login_page, login_post |-> login_post, logout |-> logout,
   verify_email |-> verify_email, verify_email_post |-> verify_email_post,
   verify_resend |-> verify_resend, password_reset_page |-> password_reset_page,
   password_reset_post |-> password_reset_post,
   password_reset_new |-> password_reset_new,
   password_reset_new_post |-> password_reset_new_post, auth_google |-> auth_google,
   auth_google_fake_consent |-> auth_google_fake_consent, account |-> account,
   account_public_name_post |-> account_public_name_post,
   account_password |-> account_password,
   account_password_post |-> account_password_post, account_email |-> account_email,
   account_email_post |-> account_email_post]
=============================================================================

---------------------------- MODULE CommercialSale ----------------------------
(***************************************************************************)
(* src/commercial_sale.py: one sale, its methods called in any order by a  *)
(* buyer and an operator.  A method whose state does not fit raises and    *)
(* changes nothing, except verify_payment, which raises and ends the sale. *)
(***************************************************************************)
EXTENDS Naturals

CONSTANTS
    Amounts, Currencies,   \* as written; currencies differ in case too
    Upper,                 \* Upper[c]: c in capitals
    Digests,               \* of what is delivered
    Nothing

ASSUME SaleAssumption ==
    /\ Upper \in [Currencies -> Currencies]
    /\ \A c \in Currencies : Upper[Upper[c]] = Upper[c]

VARIABLES
    sale,     \* [invoice, status, payment, entitlement, delivery]
    looked    \* ghost: payments an operator has confirmed

saleVars == <<sale, looked>>

Evidence == [amount : Amounts, currency : Currencies, verified : BOOLEAN]

\* What create_invoice makes an invoice of: the currency is stored in capitals.
Invoices == [amount : Amounts, currency : {Upper[c] : c \in Currencies}]

Draft(invoice) ==
    [invoice |-> invoice, status |-> "DRAFT", payment |-> Nothing, entitlement |-> 0,
     delivery |-> Nothing]

\* A draft is issued as soon as it is made.
SaleInit ==
    /\ sale \in {[Draft(invoice) EXCEPT !.status = "AWAITING_PAYMENT"] : invoice \in Invoices}
    /\ looked = {}

-----------------------------------------------------------------------------

SubmitPayment(e) ==
    /\ sale.status = "AWAITING_PAYMENT"
    /\ sale' = [sale EXCEPT !.payment = e, !.status = "PAYMENT_REVIEW"]
    /\ UNCHANGED looked

AmountAgrees == sale.payment.verified /\ sale.payment.amount = sale.invoice.amount

\* What verify_payment compares, whatever the case of the currency.
PaymentAgrees ==
    /\ sale.payment.verified
    /\ sale.payment.amount = sale.invoice.amount
    /\ Upper[sale.payment.currency] = Upper[sale.invoice.currency]

\* An operator without a name ends a sale that does not agree, but confirms none.
VerifyPayment(named) ==
    /\ sale.status = "PAYMENT_REVIEW"
    /\ IF ~PaymentAgrees
       THEN sale' = [sale EXCEPT !.status = "EXCEPTION"] /\ UNCHANGED looked
       ELSE IF named
       THEN /\ sale' = [sale EXCEPT !.status = "CONFIRMED"]
            /\ looked' = looked \cup {sale.payment}
       ELSE UNCHANGED saleVars

\* Numbered, to tell a second entitlement from the first.
IssueEntitlement ==
    /\ sale.status = "CONFIRMED"
    /\ sale' = IF sale.entitlement # 0 THEN sale
               ELSE [sale EXCEPT !.entitlement = @ + 1, !.status = "ENTITLED"]
    /\ UNCHANGED looked

Deliver(digest) ==
    /\ sale.status = "ENTITLED"
    /\ sale' = [sale EXCEPT !.delivery = digest, !.status = "DELIVERED"]
    /\ UNCHANGED looked

Accept ==
    /\ sale.status = "DELIVERED"
    /\ sale' = [sale EXCEPT !.status = "ACCEPTED"]
    /\ UNCHANGED looked

SaleNext ==
    \/ \E e \in Evidence : SubmitPayment(e)
    \/ \E named \in BOOLEAN : VerifyPayment(named)
    \/ IssueEntitlement
    \/ \E digest \in Digests : Deliver(digest)
    \/ Accept

SaleSpec == SaleInit /\ [][SaleNext]_saleVars

-----------------------------------------------------------------------------

\* Whatever is called in whatever order, an entitlement is for the one payment an
\* operator confirmed, of the invoice's amount and currency, and what was delivered
\* was delivered on one: the payment kept is never replaced after the review.
PaidBeforeEntitled ==
    /\ sale.entitlement # 0 =>
           /\ looked = {sale.payment}
           /\ sale.payment.verified
           /\ sale.payment.amount = sale.invoice.amount
           /\ Upper[sale.payment.currency] = sale.invoice.currency
    /\ sale.delivery # Nothing => sale.entitlement = 1
    /\ sale.status = "EXCEPTION" => sale.entitlement = 0
=============================================================================

-------------------------- MODULE MCInvoiceHistory --------------------------
EXTENDS MCInvoices, InvoiceHistory
=============================================================================

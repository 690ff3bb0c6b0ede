\* all charts with the states 0 .. 5
SPECIFICATION AirySpec
CONSTANTS Top = 5
          Numbers <- MCNumbers
INVARIANTS AiryTypeOK ConfigurationMatches ParentsOutlast
PROPERTIES EnteredOnce SharedParentsStay
